---------------------------- MODULE Spec2Model ----------------------------
(***************************************************************************)
(* A model of umber-cli: the import reconciliation pass (src/umber.js over *)
(* src/lib/nodebb.js), the text chunker and the legacy path codec          *)
(* (src/lib/utils.js).                                                     *)
(*                                                                         *)
(* Strings are sequences of one-character strings; indices of the string   *)
(* helpers are 0-based like JavaScript's.  Paths use the POSIX separator.  *)
(***************************************************************************)
EXTENDS Integers, Sequences, FiniteSets, TLC

VARIABLES
    \* ---- chunker (chunkText, src/lib/utils.js) ----
    text,            \* the argument text
    maxLength,       \* the argument maxLength
    remainingText,   \* local remainingText
    chunks,          \* local chunks
    cpc,             \* position in chunkText: "start", "loop", "done"
    \* ---- path codec (encodePath / decodePath, src/lib/utils.js) ----
    filePath,        \* the path handed to encodePath
    encoded,         \* result of encodePath
    decoded,         \* result of decodePath(encoded)
    kpc,             \* position of the round trip: "start", "encoded", "decoded"
    \* ---- the source repository (github.fetchRepoContents) ----
    files,           \* the file listing, in the order the pass walks it
    content,         \* content of each file of the repository
    \* ---- the remote forum ----
    categories,      \* sequence of [cid, name, parentCid]
    topics,          \* sequence of [tid, cid, title, slug, tags, mainPid, customData]
    posts,           \* sequence of [pid, tid, content]
    \* ---- the import action (src/umber.js) ----
    config,          \* config.json
    ipc,             \* position of the import action: "idle", "running"
    idx,             \* index in files of the next file of the loop
    tocEntries,      \* local tocEntries
    \* ---- history (not program state) ----
    steps,           \* per file of the current pass: lookup result and writes issued
    reconciled,      \* per file: the content the last pass reconciled, 0 if none
    passes,          \* number of passes started
    edits,           \* number of commits to the repository
    nodebbRevision,  \* whose catch findTopicByMetadata has: "nodebb.js", "part_008"
    umberRevision,   \* whose import action runs: "umber.js", "part_000", "part_003"
    failures,        \* history: the remote calls of the current pass that failed
    indexLog,        \* history: the requests of the pass's table-of-contents step
    \* ---- tag derivation (createFilenameTag, src/unnamed/part_005) ----
    tagName,         \* a filename
    tagOther,        \* a filename that differs from tagName in letter case only
    tagOut,          \* createFilenameTag(tagName)
    tagOtherOut,     \* createFilenameTag(tagOther)
    tpc,             \* position: "start", "done"
    \* ---- category resolver (findOrCreateCategoryByPath) ----
    resolver,        \* the revision in use: "nodebb.js" or "part_007"
    requests,        \* the directory paths the process resolves, in order
    forumCategories, \* the forum's categories: sequence of [cid, name, parentCid]
    categoryCache,   \* part_007's categoryCache: key -> cid
    baseCategory,    \* nodebb.js:114: the baseCid argument (Null: the root)
    remoteLog,       \* history: the remote calls issued, in order
    resolved,        \* history: the cid each call returned
    rpc,             \* position: "run", "done"
    \* ---- the create branch of the import action, request by request ----
    importer,        \* the revision in use: "umber.js" or "part_000"
    maxPostLength,   \* the ceiling: chunkText's default maxLength, the forum's limit
    newContent,      \* contentStr of the new file
    chunkList,       \* local chunks
    replyIndex,      \* local i of the reply loop
    newTopicData,    \* the tid createTopic resolved with, Null before
    inFlight,        \* the requests sent and not yet answered
    forumTopic,      \* the topics on the forum: none, or one [tid, customData]
    forumPosts,      \* the posts of the topic on the forum, in order
    wireLog,         \* history: requests sent and answers received, in order
    xpc,             \* position: "start", "replies", "done"
    \* ---- the table-of-contents document (generateTocMarkdown) ----
    utilsRevision,   \* the revision in use: "utils.js" or "part_005"
    docEntries,      \* the argument tocEntries, in the order the files were processed
    docMarkdown,     \* the result of generateTocMarkdown
    dpc,             \* position: "start", "done"
    \* ---- the fingerprint of a file over two imports (hash computation) ----
    hashRevision,    \* the revision in use: "umber.js" or "part_003"
    firstContent,    \* contentStr of the file at its first import
    secondContent,   \* contentStr at the second import: other line endings only
    contentHash,     \* customData.contentHash of the file's topic, <<>> before
    secondOutcome,   \* history: the branch the second import took
    hpc,             \* position: "start", "imported", "done"
    \* ---- the existing-topic branch of the import action ----
    updater,         \* the revision in use: "umber.js" or "part_001"
    oldContent,      \* the content the topic was created from
    updContent,      \* contentStr of the file now
    topicCustomData, \* customData of the existing topic
    topicPosts,      \* the posts of the topic on the forum: main post, then replies
    updateLog,       \* history: the writes the branch issued
    warned,          \* history: the branch logged a warning and skipped
    upc,             \* position: "start", "done"
    \* ---- the start of the import action (config loading, nodebb.init) ----
    configFile,      \* config.json exists in the working directory
    settings,        \* config.json and the --repo option
    apiClient,       \* the client of src/lib/nodebb.js, <<>> before init
    startupCalls,    \* history: the remote requests issued
    spc,             \* position of the import action before its loop
    \* ---- the per-file loop of the import action, request by request ----
    flowRevision,    \* "umber.js" or "part_000"
    flowFiles,       \* per file: the depth of its directory and the chunks of its content
    fileNo,          \* the file the loop is at
    stage,           \* position in the loop body
    segNo,           \* directory segments resolved so far
    topicFound,      \* the lookup returned a topic
    repliesSent,     \* replies sent so far
    outstanding,     \* the requests sent and not yet answered
    \* ---- pullWorkflow (src/lib/pull-command.js) ----
    hubConfig,       \* config.hub as loaded: present or not, url, api_key
    workflowPid,     \* the pid argument
    hubAnswer,       \* what the hub answers to the request
    hubRequests,     \* history: the requests sent to the hub
    workflowFiles,   \* the files written to the working directory
    ppc              \* position: "start", "waiting", "done", "exited"

chunkVars == <<text, maxLength, remainingText, chunks, cpc>>
codecVars == <<filePath, encoded, decoded, kpc>>
remoteVars == <<categories, topics, posts>>
importVars == <<files, content, remoteVars, config, ipc, idx, tocEntries,
                steps, reconciled, passes, edits, nodebbRevision, umberRevision,
                failures, indexLog>>
tagVars == <<tagName, tagOther, tagOut, tagOtherOut, tpc>>
resolverVars == <<resolver, requests, forumCategories, categoryCache, baseCategory,
                  remoteLog, resolved, rpc>>
createVars == <<importer, maxPostLength, newContent, chunkList, replyIndex, newTopicData, inFlight,
                forumTopic, forumPosts, wireLog, xpc>>
docVars == <<utilsRevision, docEntries, docMarkdown, dpc>>
hashVars == <<hashRevision, firstContent, secondContent, contentHash, secondOutcome, hpc>>
updateVars == <<updater, oldContent, updContent, topicCustomData, topicPosts, updateLog, warned, upc>>
startupVars == <<configFile, settings, apiClient, startupCalls, spc>>
flowVars == <<flowRevision, flowFiles, fileNo, stage, segNo, topicFound,
              repliesSent, outstanding>>
pullVars == <<hubConfig, workflowPid, hubAnswer, hubRequests, workflowFiles, ppc>>
vars == <<chunkVars, codecVars, importVars, tagVars, resolverVars,
          createVars, docVars, hashVars, updateVars, startupVars, flowVars,
          pullVars>>

\* what the actions of one part leave alone of the other parts
notChunkVars == <<codecVars, importVars, tagVars, resolverVars, createVars,
                  docVars, hashVars, updateVars, startupVars, flowVars,
                  pullVars>>
notCodecVars == <<chunkVars, importVars, tagVars, resolverVars, createVars,
                  docVars, hashVars, updateVars, startupVars, flowVars,
                  pullVars>>
notImportVars == <<chunkVars, codecVars, tagVars, resolverVars, createVars,
                   docVars, hashVars, updateVars, startupVars, flowVars,
                   pullVars>>
notTagVars == <<chunkVars, codecVars, importVars, resolverVars, createVars,
                docVars, hashVars, updateVars, startupVars, flowVars,
                pullVars>>
notResolverVars == <<chunkVars, codecVars, importVars, tagVars, createVars,
                     docVars, hashVars, updateVars, startupVars, flowVars,
                     pullVars>>
notCreateVars == <<chunkVars, codecVars, importVars, tagVars, resolverVars,
                   docVars, hashVars, updateVars, startupVars, flowVars,
                   pullVars>>
notDocVars == <<chunkVars, codecVars, importVars, tagVars, resolverVars,
                createVars, hashVars, updateVars, startupVars, flowVars,
                pullVars>>
notHashVars == <<chunkVars, codecVars, importVars, tagVars, resolverVars,
                 createVars, docVars, updateVars, startupVars, flowVars,
                 pullVars>>
notUpdateVars == <<chunkVars, codecVars, importVars, tagVars, resolverVars,
                   createVars, docVars, hashVars, startupVars, flowVars,
                   pullVars>>
notStartupVars == <<chunkVars, codecVars, importVars, tagVars, resolverVars,
                    createVars, docVars, hashVars, updateVars, flowVars,
                    pullVars>>
notFlowVars == <<chunkVars, codecVars, importVars, tagVars, resolverVars,
                 createVars, docVars, hashVars, updateVars, startupVars,
                 pullVars>>
notPullVars == <<chunkVars, codecVars, importVars, tagVars, resolverVars,
                 createVars, docVars, hashVars, updateVars, startupVars,
                 flowVars>>

(***************************************************************************)
(* Bounds of the model.                                                    *)
(***************************************************************************)
MaxTextLen == 6
MaxMaxLength == 5
MaxPathLen == 5
MaxPasses == 2
MaxVersion == 2
MaxEdits == 1
MaxFiles == 2
MaxRequests == 3
MaxContentLen == 5
\* stands for the default of chunkText's maxLength, 32768 (src/lib/utils.js:53)
DefaultMaxLength == 2
MaxNameLen == 3
MaxEntries == 3
MaxLfLen == 3
MaxFailures == 2
\* the deepest directory and the most chunks of a file of the request-level loop
MaxDepth == 2
MaxChunks == 2
\* the ceiling and the longest content where the code fence is counted
FencedCeiling == 12
MaxFencedLen == 16

(***************************************************************************)
(* JavaScript string helpers.                                              *)
(***************************************************************************)
Whitespace == {" ", "\n", "\t", "\r"}

SeqsUpTo(S, n) == UNION {[1..k -> S] : k \in 0..n}

Min(a, b) == IF a < b THEN a ELSE b

Max(a, b) == IF a < b THEN b ELSE a

\* String.prototype.substring(a, b): clamps to [0, length], swaps if a > b.
Substring(s, a, b) ==
    LET ca == Min(Max(a, 0), Len(s))
        cb == Min(Max(b, 0), Len(s))
        lo == Min(ca, cb)
        hi == Max(ca, cb)
    IN  SubSeq(s, lo + 1, hi)

\* String.prototype.substring(a): to the end of the string.
SubstringFrom(s, a) == Substring(s, a, Len(s))

\* pat occurs in s at 0-based index i
OccursAt(s, pat, i) ==
    /\ i >= 0
    /\ i + Len(pat) <= Len(s)
    /\ \A j \in 1..Len(pat) : s[i + j] = pat[j]

\* String.prototype.lastIndexOf(pat, from): the last index <= from, or -1.
LastIndexOf(s, pat, from) ==
    LET hits == {i \in 0..Min(from, Len(s)) : OccursAt(s, pat, i)}
    IN  IF hits = {} THEN -1 ELSE CHOOSE i \in hits : \A j \in hits : j <= i

\* String.prototype.indexOf(pat, from): the first index >= from, or -1.
IndexOf(s, pat, from) ==
    LET hits == {i \in Max(from, 0)..Len(s) : OccursAt(s, pat, i)}
    IN  IF hits = {} THEN -1 ELSE CHOOSE i \in hits : \A j \in hits : i <= j

\* String.prototype.trim()
Trim(s) ==
    LET keep == {i \in 1..Len(s) : s[i] \notin Whitespace}
    IN  IF keep = {} THEN <<>>
        ELSE SubSeq(s, CHOOSE i \in keep : \A j \in keep : i <= j,
                       CHOOSE i \in keep : \A j \in keep : j <= i)

\* String.prototype.replace(/pat/g, rep): leftmost, non-overlapping matches.
RECURSIVE ReplaceAll(_, _, _)
ReplaceAll(s, pat, rep) ==
    LET i == IndexOf(s, pat, 0)
    IN  IF i = -1 THEN s
        ELSE Substring(s, 0, i) \o rep
                 \o ReplaceAll(SubstringFrom(s, i + Len(pat)), pat, rep)

Contains(s, pat) == IndexOf(s, pat, 0) # -1

RECURSIVE Concat(_)
Concat(ss) == IF ss = <<>> THEN <<>> ELSE Head(ss) \o Concat(Tail(ss))

(***************************************************************************)
(* chunkText (src/lib/utils.js:53-87).                                     *)
(***************************************************************************)
\* A cut-point rule that drops the "found" guard of the last fallback.
SliceIndexUnguarded(rem, max) ==
    LET lastNewline == LastIndexOf(rem, <<"\n">>, max)
        lastSentence == LastIndexOf(rem, <<".", " ">>, max)
        lastSpace == LastIndexOf(rem, <<" ">>, max)
    IN  IF lastNewline > -1 /\ 2 * lastNewline > max THEN lastNewline
        ELSE IF lastSentence > -1 /\ 2 * lastSentence > max THEN lastSentence + 1
        ELSE lastSpace

\* A cut-point rule whose newline test compares the wrong way round.
SliceIndexFlipped(rem, max) ==
    LET lastNewline == LastIndexOf(rem, <<"\n">>, max)
        lastSentence == LastIndexOf(rem, <<".", " ">>, max)
        lastSpace == LastIndexOf(rem, <<" ">>, max)
    IN  IF lastNewline > -1 /\ 2 * lastNewline < max THEN lastNewline
        ELSE IF lastSentence > -1 /\ 2 * lastSentence > max THEN lastSentence + 1
        ELSE IF lastSpace > -1 /\ 2 * lastSpace > max THEN lastSpace
        ELSE max

\* A cut-point rule whose sentence cut keeps the period out of the chunk.
SliceIndexAtPeriod(rem, max) ==
    LET lastNewline == LastIndexOf(rem, <<"\n">>, max)
        lastSentence == LastIndexOf(rem, <<".", " ">>, max)
        lastSpace == LastIndexOf(rem, <<" ">>, max)
    IN  IF lastNewline > -1 /\ 2 * lastNewline > max THEN lastNewline
        ELSE IF lastSentence > -1 /\ 2 * lastSentence > max THEN lastSentence
        ELSE IF lastSpace > -1 /\ 2 * lastSpace > max THEN lastSpace
        ELSE max

\* lines 67-80: the cut point of one iteration (x > maxLength / 2 is 2x > maxLength)
SliceIndex(rem, max) ==
    LET lastNewline == LastIndexOf(rem, <<"\n">>, max)
        lastSentence == LastIndexOf(rem, <<".", " ">>, max)
        lastSpace == LastIndexOf(rem, <<" ">>, max)
    IN  IF lastNewline > -1 /\ 2 * lastNewline > max THEN lastNewline
        ELSE IF lastSentence > -1 /\ 2 * lastSentence > max THEN lastSentence + 1
        ELSE IF lastSpace > -1 /\ 2 * lastSpace > max THEN lastSpace
        ELSE max

\* A piece that skips the character at the cut point.
RestSkipsOne(rem, max) == Trim(SubstringFrom(rem, SliceIndex(rem, max) + 1))

\* line 82: the chunk pushed by one iteration
ChunkPiece(rem, max) == Trim(Substring(rem, 0, SliceIndex(rem, max)))

\* line 83: the text left after one iteration
ChunkRest(rem, max) == Trim(SubstringFrom(rem, SliceIndex(rem, max)))

\* An early return that trims the short text.
ShortResultTrimmed(t) == <<Trim(t)>>

\* line 55: the early return
ShortResult(t) == <<t>>

RECURSIVE ChunkLoop(_, _, _)
\* lines 61-84: the loop, for a positive max
ChunkLoop(rem, max, acc) ==
    IF Len(rem) = 0 THEN acc
    ELSE IF Len(rem) <= max THEN Append(acc, rem)
    ELSE ChunkLoop(ChunkRest(rem, max), max, Append(acc, ChunkPiece(rem, max)))

\* src/lib/utils.js:53-87 as a function of its arguments
chunkText(t, max) ==
    IF Len(t) <= max THEN ShortResult(t) ELSE ChunkLoop(t, max, <<>>)

(***************************************************************************)
(* path.normalize (POSIX) and encodePath / decodePath                      *)
(* (src/lib/utils.js:11-34).                                               *)
(***************************************************************************)
RECURSIVE Split(_, _)
\* String.prototype.split(c) for a one-character separator
Split(s, c) ==
    LET i == IndexOf(s, <<c>>, 0)
    IN  IF i = -1 THEN <<s>>
        ELSE <<Substring(s, 0, i)>> \o Split(SubstringFrom(s, i + 1), c)

RECURSIVE Join(_, _)
\* Array.prototype.join(c)
Join(segs, c) ==
    IF segs = <<>> THEN <<>>
    ELSE IF Len(segs) = 1 THEN segs[1]
    ELSE segs[1] \o <<c>> \o Join(Tail(segs), c)

RECURSIVE normalizeString(_, _, _)
\* node's normalizeString: drops "" and ".", resolves ".." against the result
normalizeString(segs, res, allowAboveRoot) ==
    IF segs = <<>> THEN res
    ELSE LET h == Head(segs)
             t == Tail(segs)
         IN  IF h = <<>> \/ h = <<".">> THEN normalizeString(t, res, allowAboveRoot)
             ELSE IF h = <<".", ".">>
                  THEN IF res # <<>> /\ res[Len(res)] # <<".", ".">>
                       THEN normalizeString(t, SubSeq(res, 1, Len(res) - 1), allowAboveRoot)
                       ELSE IF allowAboveRoot
                            THEN normalizeString(t, Append(res, h), allowAboveRoot)
                            ELSE normalizeString(t, res, allowAboveRoot)
                  ELSE normalizeString(t, Append(res, h), allowAboveRoot)

\* path.normalize on POSIX
pathNormalize(p) ==
    IF Len(p) = 0 THEN <<".">>
    ELSE LET isAbsolute == p[1] = "/"
             trailingSeparator == p[Len(p)] = "/"
             body == Join(normalizeString(Split(p, "/"), <<>>, ~isAbsolute), "/")
         IN  IF Len(body) = 0
             THEN IF isAbsolute THEN <<"/">>
                  ELSE IF trailingSeparator THEN <<".", "/">> ELSE <<".">>
             ELSE (IF isAbsolute THEN <<"/">> ELSE <<>>) \o body
                      \o (IF trailingSeparator THEN <<"/">> ELSE <<>>)

SlashSentinel == <<"_", "_">>

DotSentinel == <<"_", "d", "o", "t", "_">>

\* src/lib/utils.js:11-23
encodePath(p) ==
    LET normalizedPath == ReplaceAll(pathNormalize(p), <<"\\">>, <<"/">>)
    IN  ReplaceAll(ReplaceAll(normalizedPath, <<"/">>, SlashSentinel), <<".">>, DotSentinel)

\* src/lib/utils.js:30-34
decodePath(e) ==
    ReplaceAll(ReplaceAll(e, SlashSentinel, <<"/">>), DotSentinel, <<".">>)

(***************************************************************************)
(* The chunker as a step machine: one action per branch of chunkText.      *)
(***************************************************************************)
ChunkIdle ==
    /\ text = <<>>
    /\ maxLength = 0
    /\ remainingText = <<>>
    /\ chunks = <<>>
    /\ cpc = "off"

CodecIdle ==
    /\ filePath = <<>>
    /\ encoded = <<>>
    /\ decoded = <<>>
    /\ kpc = "off"

TagIdle ==
    /\ tagName = <<>>
    /\ tagOther = <<>>
    /\ tagOut = <<>>
    /\ tagOtherOut = <<>>
    /\ tpc = "off"

\* JavaScript's null where a cid is expected (cids are positive)
Null == 0

ResolverIdle ==
    /\ resolver = "off"
    /\ requests = <<>>
    /\ forumCategories = <<>>
    /\ categoryCache = <<>>
    /\ baseCategory = Null
    /\ remoteLog = <<>>
    /\ resolved = <<>>
    /\ rpc = "off"

CreateIdle ==
    /\ importer = "off"
    /\ maxPostLength = 0
    /\ newContent = <<>>
    /\ chunkList = <<>>
    /\ replyIndex = 0
    /\ newTopicData = 0
    /\ inFlight = <<>>
    /\ forumTopic = <<>>
    /\ forumPosts = <<>>
    /\ wireLog = <<>>
    /\ xpc = "off"

(***************************************************************************)
(* path.basename, path.dirname, path.extname (POSIX), calculateHash and    *)
(* createFilenameTag.                                                      *)
(***************************************************************************)
\* path.dirname of a path without trailing separator
pathDirname(p) ==
    LET i == LastIndexOf(p, <<"/">>, Len(p))
    IN  IF i = -1 THEN <<".">>
        ELSE IF i = 0 THEN <<"/">>
        ELSE Substring(p, 0, i)

\* path.basename of a path without trailing separator
pathBasename(p) == SubstringFrom(p, LastIndexOf(p, <<"/">>, Len(p)) + 1)

\* path.extname: from the last dot of the basename, unless the basename
\* starts with it
pathExtname(p) ==
    LET b == pathBasename(p)
        i == LastIndexOf(b, <<".">>, Len(b))
    IN  IF i <= 0 THEN <<>> ELSE SubstringFrom(b, i)

UpperCase == <<"A", "B", "C", "D", "E", "F", "G", "H", "I", "J", "K", "L", "M",
               "N", "O", "P", "Q", "R", "S", "T", "U", "V", "W", "X", "Y", "Z">>

LowerCase == <<"a", "b", "c", "d", "e", "f", "g", "h", "i", "j", "k", "l", "m",
               "n", "o", "p", "q", "r", "s", "t", "u", "v", "w", "x", "y", "z">>

Digits == {"0", "1", "2", "3", "4", "5", "6", "7", "8", "9"}

\* String.prototype.toLowerCase
toLowerCase(s) ==
    [i \in 1..Len(s) |->
        IF \E k \in 1..Len(UpperCase) : UpperCase[k] = s[i]
        THEN LowerCase[CHOOSE k \in 1..Len(UpperCase) : UpperCase[k] = s[i]]
        ELSE s[i]]

\* the characters /[^a-z0-9_]/ leaves alone
TagChars == {LowerCase[k] : k \in 1..Len(LowerCase)} \cup Digits \cup {"_"}

\* A derivation that leaves out toLowerCase.
createFilenameTagCaseKept(filename) ==
    [i \in 1..Len(filename) |-> IF filename[i] \in TagChars THEN filename[i] ELSE "-"]

\* src/unnamed/part_005:21-23
createFilenameTag(filename) ==
    LET lower == toLowerCase(filename)
    IN  [i \in 1..Len(lower) |-> IF lower[i] \in TagChars THEN lower[i] ELSE "-"]

\* src/lib/utils.js:41-43: SHA-256, taken to be free of collisions
calculateHash(c) == <<"sha256", c>>

\* the fenced code block the import action wraps the content in
\* (src/umber.js:72 and 88)
FencedContent(fileName, contentStr) ==
    LET ext == pathExtname(fileName)
        lang == IF Len(ext) > 0 /\ ext[1] = "." THEN Tail(ext) ELSE ext
    IN  [lang |-> IF lang = <<>> THEN <<"t", "e", "x", "t">> ELSE lang,
         body |-> contentStr]

(***************************************************************************)
(* The remote forum as src/lib/nodebb.js uses it.  A remote state is a     *)
(* record [categories, topics, posts]; a write is a record with field op.  *)
(***************************************************************************)
Remote == [categories |-> categories, topics |-> topics, posts |-> posts]

\* POST /api/v3/categories
CreateCategoryCall(name, parentCid) ==
    [op |-> "createCategory", name |-> name, parentCid |-> parentCid]

\* POST /api/v3/topics
CreateTopicCall(topicData) == [op |-> "createTopic", topicData |-> topicData]

\* PUT /api/v3/posts/:pid
UpdatePostCall(pid, postContent) ==
    [op |-> "updatePost", pid |-> pid, content |-> postContent]

\* the read findTopicByMetadata issues (GET /api/category/:cid)
LookupCall(filenameTag, parentCid) ==
    [op |-> "findTopic", tag |-> filenameTag, cid |-> parentCid]

\* what the forum does with one write
ApplyCall(r, call) ==
    IF call.op = "createCategory"
    THEN [r EXCEPT !.categories =
            Append(@, [cid |-> Len(@) + 1, name |-> call.name,
                       parentCid |-> call.parentCid])]
    ELSE IF call.op = "createTopic"
    THEN LET tid == Len(r.topics) + 1
             pid == Len(r.posts) + 1
             d == call.topicData
         IN  [r EXCEPT
                !.topics = Append(@, [tid |-> tid, cid |-> d.cid, title |-> d.title,
                                      slug |-> <<tid, toLowerCase(d.title)>>,
                                      tags |-> d.tags, mainPid |-> pid,
                                      customData |-> d.customData]),
                !.posts = Append(@, [pid |-> pid, tid |-> tid, content |-> d.content])]
    ELSE [r EXCEPT !.posts[call.pid].content = call.content]

RECURSIVE ApplyCalls(_, _)
ApplyCalls(r, calls) ==
    IF calls = <<>> THEN r ELSE ApplyCalls(ApplyCall(r, Head(calls)), Tail(calls))

\* src/lib/nodebb.js:35-73: the tids the lookup can return (Null: not found).
\* The forum decides the order of the category's topic list, so any topic of
\* the category that carries the tag can be the one Array.find returns.
findTopicByMetadata(r, filenameTag, parentCid) ==
    IF parentCid = Null THEN {Null}
    ELSE LET matches == {t \in 1..Len(r.topics) :
                            /\ r.topics[t].cid = parentCid
                            /\ \E k \in 1..Len(r.topics[t].tags) :
                                  toLowerCase(r.topics[t].tags[k]) = toLowerCase(filenameTag)}
         IN  IF matches = {} THEN {Null} ELSE matches

RECURSIVE WalkCategoryPath(_, _, _, _)
\* src/lib/nodebb.js:123-142: the loop over the path's parts; cats is the
\* forum's category list as the writes so far have left it
WalkCategoryPath(cats, parts, parentCid, calls) ==
    IF parts = <<>> THEN [cid |-> parentCid, calls |-> calls]
    ELSE LET part == Head(parts)
             found == {k \in 1..Len(cats) :
                          /\ toLowerCase(cats[k].name) = toLowerCase(part)
                          /\ cats[k].parentCid = parentCid}
         IN  IF found # {}
             THEN WalkCategoryPath(cats, Tail(parts),
                      cats[CHOOSE k \in found : \A j \in found : k <= j].cid, calls)
             ELSE WalkCategoryPath(
                      Append(cats, [cid |-> Len(cats) + 1, name |-> part,
                                    parentCid |-> parentCid]),
                      Tail(parts), Len(cats) + 1,
                      Append(calls, CreateCategoryCall(part, parentCid)))

\* src/lib/nodebb.js:114-143: the cid of the path and the creates issued
findOrCreateCategoryByPath(r, categoryPath, baseCid) ==
    IF categoryPath = <<".">> \/ categoryPath = <<>>
    THEN [cid |-> baseCid, calls |-> <<>>]
    ELSE WalkCategoryPath(r.categories, Split(categoryPath, "/"), baseCid, <<>>)

\* PUT /topics/:tid
UpdateTopicDataCall(tid, customData) ==
    [op |-> "updateTopicData", tid |-> tid, customData |-> customData]

\* src/unnamed/part_007:161-176: the writes of updateTopic: the post, then
\* the topic's customData
updateTopicAndData(tid, pid, topicData) ==
    <<UpdatePostCall(pid, topicData.content),
      UpdateTopicDataCall(tid, topicData.customData)>>

\* an updateTopic that also overwrites the post after the main post
updateTopicAndNextPost(tid, pid, topicData) ==
    <<UpdatePostCall(pid, topicData.content),
      UpdatePostCall(pid + 1, topicData.content)>>

\* src/lib/nodebb.js:99-112: the writes of updateTopic; topicData.customData
\* is not sent
updateTopic(tid, pid, topicData) == <<UpdatePostCall(pid, topicData.content)>>

\* src/lib/nodebb.js:80-90: the write of createTopic
createTopic(topicData) == <<CreateTopicCall(topicData)>>

(***************************************************************************)
(* The import action (src/umber.js:20-134).                                *)
(***************************************************************************)
\* A decision that leaves out the hash comparison.
OutcomeNoCompare(existingTopic, storedHash, hash) ==
    IF existingTopic # Null THEN "update" ELSE "create"

\* src/umber.js:64, 68, 75, 78: the branch taken for one file
Outcome(existingTopic, storedHash, hash) ==
    IF existingTopic # Null
    THEN IF storedHash # hash THEN "update" ELSE "skip"
    ELSE "create"

\* customData.contentHash of a topic as the lookup returns it
\* (src/lib/nodebb.js:63: customData || {})
StoredHash(r, tid) ==
    IF tid = Null THEN Null ELSE r.topics[tid].customData.contentHash

\* Path tags that keep the "." of the root directory.
PathTagsUnfiltered(directoryPath) == Split(directoryPath, "/")

\* directoryPath.split(path.sep).filter(p => p !== '.') (src/umber.js:80)
PathTags(directoryPath) == SelectSeq(Split(directoryPath, "/"), LAMBDA seg : seg # <<".">>)

\* src/umber.js:64-98: the topic writes for one file
TopicCalls(r, existingTopic, normalizedFilePath, contentStr, parentCid) ==
    LET hash == calculateHash(contentStr)
        fileName == pathBasename(normalizedFilePath)
        directoryPath == pathDirname(normalizedFilePath)
        filenameTag == createFilenameTag(fileName)
        outcome == Outcome(existingTopic, StoredHash(r, existingTopic), hash)
    IN  IF outcome = "update"
        THEN updateTopic(existingTopic, r.topics[existingTopic].mainPid,
                 [content |-> FencedContent(fileName, contentStr),
                  customData |-> [r.topics[existingTopic].customData
                                     EXCEPT !.contentHash = hash]])
        ELSE IF outcome = "create"
        THEN createTopic([cid |-> parentCid, title |-> fileName,
                          content |-> FencedContent(fileName, contentStr),
                          tags |-> PathTags(directoryPath) \o <<filenameTag>>,
                          customData |-> [source |-> "github",
                                          filePath |-> normalizedFilePath,
                                          contentHash |-> hash]])
        ELSE <<>>

\* the characters of the model's file names, in collation order
Collation == <<"_", "-", ".", "/", "a", "A", "b", "B", "r", "R", "t", "T", "x", "X">>

CharRank(c) == CHOOSE k \in 1..Len(Collation) : Collation[k] = c

\* the characters of the model's file names, in the order of their UTF-16
\* code units (the order of the operator < on strings)
CodeUnitOrder == <<"-", ".", "/", "A", "B", "R", "T", "X", "_", "a", "b", "r", "t", "x">>

CodeUnitRank(c) == CHOOSE k \in 1..Len(CodeUnitOrder) : CodeUnitOrder[k] = c

RECURSIVE RanksBefore(_, _)
\* lexicographic order of two sequences of ranks; a proper prefix comes first
RanksBefore(a, b) ==
    IF a = <<>> THEN b # <<>>
    ELSE IF b = <<>> THEN FALSE
    ELSE IF a[1] # b[1] THEN a[1] < b[1]
    ELSE RanksBefore(Tail(a), Tail(b))

\* a < b on strings: lexicographic by code unit
CodeUnitBefore(a, b) ==
    RanksBefore([i \in 1..Len(a) |-> CodeUnitRank(a[i])],
                [i \in 1..Len(b) |-> CodeUnitRank(b[i])])

\* the first level of the collation: the letters without their case
PrimaryKey(s) ==
    LET lower == toLowerCase(s)
    IN  [i \in 1..Len(s) |-> CharRank(lower[i])]

\* a.localeCompare(b) < 0 (src/lib/utils.js:102): the strings are compared
\* without letter case first, and by case (lower before upper) only when
\* that finds no difference
PathBefore(a, b) ==
    LET ka == PrimaryKey(a)
        kb == PrimaryKey(b)
    IN  IF ka # kb
        THEN RanksBefore(ka, kb)
        ELSE RanksBefore([i \in 1..Len(a) |-> CharRank(a[i])],
                         [i \in 1..Len(b) |-> CharRank(b[i])])

\* tocEntries.sort left out: the entries stay in the order they were
\* processed
SortEntriesSkipped(entries) == entries

RECURSIVE SortEntries(_)
\* tocEntries.sort by filePath (src/lib/utils.js:102); Array.prototype.sort
\* is stable
SortEntries(entries) ==
    IF entries = <<>> THEN <<>>
    ELSE LET h == Head(entries)
             rest == SortEntries(Tail(entries))
             before == SelectSeq(rest, LAMBDA e : PathBefore(e.filePath, h.filePath))
             after == SelectSeq(rest, LAMBDA e : ~PathBefore(e.filePath, h.filePath))
         IN  before \o <<h>> \o after

\* src/lib/utils.js:95-110: the header, then one bullet per sorted entry
generateTocMarkdown(entries) ==
    LET sortedEntries == SortEntries(entries)
    IN  [header |-> "toc_header_content",
         bullets |-> [i \in 1..Len(entries) |->
                        [title |-> sortedEntries[i].title,
                         tid |-> sortedEntries[i].tid,
                         slug |-> sortedEntries[i].slug]]]

\* src/unnamed/part_005:31-43: the header, then one bullet per sorted entry;
\* the link of a bullet has the slug only
generateTocMarkdownSlugOnly(entries) ==
    LET sortedEntries == SortEntries(entries)
    IN  [header |-> "toc_header_content",
         bullets |-> [i \in 1..Len(entries) |->
                        [title |-> sortedEntries[i].title,
                         slug |-> sortedEntries[i].slug]]]

\* src/umber.js:105-123: the writes of the table-of-contents upsert
TocCalls(r, tocTopic) ==
    IF tocTopic # Null
    THEN updateTopic(tocTopic, r.topics[tocTopic].mainPid,
             [content |-> generateTocMarkdown(tocEntries)])
    ELSE createTopic([cid |-> config.toc_cid, title |-> config.toc_title,
                      content |-> generateTocMarkdown(tocEntries),
                      tags |-> <<createFilenameTag(config.toc_title)>>,
                      customData |-> [source |-> "toc", filePath |-> <<>>,
                                      contentHash |-> Null]])

\* the repository's files in the model
Candidates == { <<"r">>, <<"a", "/", "x">>, <<"a", "/", "a">>,
                <<"a", "/", "b", "/", "X", ".", "t">> }

Listings ==
    {l \in UNION {[1..k -> Candidates] : k \in 0..Min(MaxFiles, Cardinality(Candidates))} :
        \A i, j \in 1..Len(l) : i # j => l[i] # l[j]}

ImportIdle ==
    /\ files = <<>>
    /\ content = <<>>
    /\ categories = <<>>
    /\ topics = <<>>
    /\ posts = <<>>
    /\ config = <<>>
    /\ ipc = "off"
    /\ idx = 0
    /\ tocEntries = <<>>
    /\ steps = <<>>
    /\ reconciled = <<>>
    /\ passes = 0
    /\ edits = 0
    /\ nodebbRevision = "off"
    /\ umberRevision = "off"
    /\ failures = <<>>
    /\ indexLog = <<>>

DocIdle ==
    /\ utilsRevision = "off"
    /\ docEntries = <<>>
    /\ docMarkdown = <<>>
    /\ dpc = "off"

HashIdle ==
    /\ hashRevision = "off"
    /\ firstContent = <<>>
    /\ secondContent = <<>>
    /\ contentHash = <<>>
    /\ secondOutcome = "none"
    /\ hpc = "off"

UpdateIdle ==
    /\ updater = "off"
    /\ oldContent = <<>>
    /\ updContent = <<>>
    /\ topicCustomData = <<>>
    /\ topicPosts = <<>>
    /\ updateLog = <<>>
    /\ warned = FALSE
    /\ upc = "off"

StartupIdle ==
    /\ configFile = FALSE
    /\ settings = <<>>
    /\ apiClient = <<>>
    /\ startupCalls = <<>>
    /\ spc = "off"

FlowIdle ==
    /\ flowRevision = "off"
    /\ flowFiles = <<>>
    /\ fileNo = 0
    /\ stage = "off"
    /\ segNo = 0
    /\ topicFound = FALSE
    /\ repliesSent = 0
    /\ outstanding = <<>>

PullIdle ==
    /\ hubConfig = <<>>
    /\ workflowPid = 0
    /\ hubAnswer = <<>>
    /\ hubRequests = <<>>
    /\ workflowFiles = {}
    /\ ppc = "off"

\* the forum holds the category the table of contents goes to, nothing else
ImportInit ==
    /\ files \in Listings
    /\ content = [f \in {files[i] : i \in 1..Len(files)} |-> 1]
    /\ categories = << [cid |-> 1, name |-> <<"t", "o", "c">>, parentCid |-> Null] >>
    /\ topics = <<>>
    /\ posts = <<>>
    /\ config \in [generate_toc : BOOLEAN, toc_cid : {1}, toc_title : {<<"T", "o", "C">>}]
    /\ ipc = "idle"
    /\ idx = 0
    /\ tocEntries = <<>>
    /\ steps = <<>>
    /\ reconciled = [f \in {files[i] : i \in 1..Len(files)} |-> 0]
    /\ passes = 0
    /\ edits = 0
    /\ nodebbRevision = "nodebb.js"
    /\ umberRevision = "umber.js"
    /\ failures = <<>>
    /\ indexLog = <<>>
    /\ ChunkIdle
    /\ CodecIdle
    /\ TagIdle
    /\ ResolverIdle
    /\ CreateIdle
    /\ DocIdle
    /\ HashIdle
    /\ UpdateIdle
    /\ StartupIdle
    /\ FlowIdle
    /\ PullIdle

\* a commit to the repository between two passes changes one file
EditFile ==
    /\ ipc = "idle"
    /\ passes < MaxPasses
    /\ edits < MaxEdits
    /\ \E i \in 1..Len(files) : \E v \in 1..MaxVersion :
          /\ v # content[files[i]]
          /\ content' = [content EXCEPT ![files[i]] = v]
    /\ edits' = edits + 1
    /\ UNCHANGED <<files, remoteVars, config, ipc, idx, tocEntries, steps,
                   reconciled, passes, nodebbRevision, umberRevision,
                   failures, indexLog>>
    /\ UNCHANGED notImportVars

\* src/umber.js:20-41: config loaded, client initialised, files fetched
StartPass ==
    /\ ipc = "idle"
    /\ passes < MaxPasses
    /\ ipc' = "running"
    /\ idx' = 1
    /\ tocEntries' = <<>>
    /\ steps' = <<>>
    /\ passes' = passes + 1
    /\ failures' = <<>>
    /\ indexLog' = <<>>
    /\ UNCHANGED <<files, content, remoteVars, config, reconciled, edits,
                   nodebbRevision, umberRevision>>
    /\ UNCHANGED notImportVars

\* src/unnamed/part_000:42, 58 and src/unnamed/part_003:47, 64: the base of
\* the categories.  The master category of these revisions is the category
\* the table of contents is posted in (part_000:128-134), Null when no master
\* category is configured; src/umber.js:58 passes no base.
masterCid ==
    IF umberRevision \in {"part_000", "part_003"} THEN config.toc_cid ELSE Null

\* src/umber.js:85-97 and src/unnamed/part_003:91-104: the topic id the create
\* branch leaves in topicDataForToc; part_003 drops createTopic's result
CreatedTid(created) == IF umberRevision = "part_003" THEN Null ELSE created

\* src/umber.js:43-103: one iteration of the loop over the files
ReconcileFile ==
    /\ ipc = "running"
    /\ idx <= Len(files)
    /\ LET normalizedFilePath == pathNormalize(files[idx])
           contentStr == content[files[idx]]
           hash == calculateHash(contentStr)
           fileName == pathBasename(normalizedFilePath)
           directoryPath == pathDirname(normalizedFilePath)
           cat == findOrCreateCategoryByPath(Remote, directoryPath, masterCid)
           r1 == ApplyCalls(Remote, cat.calls)
           filenameTag == createFilenameTag(fileName)
       IN  \E existingTopic \in findTopicByMetadata(r1, filenameTag, cat.cid) :
              LET calls == TopicCalls(r1, existingTopic, normalizedFilePath,
                                      contentStr, cat.cid)
                  r2 == ApplyCalls(r1, calls)
                  tid == IF existingTopic # Null THEN existingTopic
                         ELSE CreatedTid(Len(r2.topics))
              IN  /\ categories' = r2.categories
                  /\ topics' = r2.topics
                  /\ posts' = r2.posts
                  /\ tocEntries' =
                        IF tid # Null
                        THEN Append(tocEntries,
                                 [filePath |-> normalizedFilePath, title |-> fileName,
                                  tid |-> tid, slug |-> r2.topics[tid].slug])
                        ELSE tocEntries
                  /\ steps' = Append(steps,
                        [filePath |-> normalizedFilePath,
                         hash |-> hash,
                         parentCid |-> cat.cid,
                         lookup |-> existingTopic,
                         storedHash |-> StoredHash(r1, existingTopic),
                         tid |-> tid,
                         unchanged |-> reconciled[files[idx]] = contentStr,
                         writes |-> cat.calls \o calls])
    /\ reconciled' = [reconciled EXCEPT ![files[idx]] = content[files[idx]]]
    /\ idx' = idx + 1
    /\ UNCHANGED <<files, content, config, ipc, passes, edits, nodebbRevision,
                   umberRevision,
                   failures, indexLog>>
    /\ UNCHANGED notImportVars

\* src/umber.js:105: the condition of the table-of-contents step, with the
\* option ignored
IndexStepRunsUngated(cfg, entries) == Len(entries) > 0

\* src/umber.js:105: the condition of the table-of-contents step
IndexStepRuns(cfg, entries) == cfg.generate_toc /\ Len(entries) > 0

\* src/lib/nodebb.js:35-42: the request of the table-of-contents lookup; none
\* is sent for a falsy category id
IndexLookup ==
    IF config.toc_cid = Null THEN <<>>
    ELSE <<LookupCall(createFilenameTag(config.toc_title), config.toc_cid)>>

\* src/umber.js:105-125: the table of contents, then the pass is complete
FinishPass ==
    /\ ipc = "running"
    /\ idx > Len(files)
    /\ IF IndexStepRuns(config, tocEntries)
       THEN \E tocTopic \in findTopicByMetadata(Remote,
                                createFilenameTag(config.toc_title), config.toc_cid) :
               LET r2 == ApplyCalls(Remote, TocCalls(Remote, tocTopic))
               IN  /\ categories' = r2.categories
                   /\ topics' = r2.topics
                   /\ posts' = r2.posts
                   /\ indexLog' = IndexLookup \o TocCalls(Remote, tocTopic)
       ELSE UNCHANGED <<remoteVars, indexLog>>
    /\ ipc' = "idle"
    /\ UNCHANGED <<files, content, config, idx, tocEntries, steps, reconciled,
                   passes, edits, nodebbRevision, umberRevision, failures>>
    /\ UNCHANGED notImportVars

Next ==
    \/ EditFile
    \/ StartPass
    \/ ReconcileFile
    \/ FinishPass

Spec == ImportInit /\ [][Next]_vars

(***************************************************************************)
(* The pass with failing remote calls.  Every function of the client logs  *)
(* the error and rethrows it, and the import action's catch ends the       *)
(* process (src/umber.js:127-133), except for the catch of                 *)
(* findTopicByMetadata.                                                    *)
(***************************************************************************)
\* the HTTP statuses of the failing answers of the model
Statuses == {404, 500}

\* src/lib/nodebb.js:65-72 and src/unnamed/part_008:108-115: what
\* findTopicByMetadata does with an error of the given status
LookupCatch(revision, status) ==
    IF status = 404 THEN "null"
    ELSE IF revision = "part_008" THEN "null"
    ELSE "throw"

\* a catch that undoes the writes of the file at hand
RolledBackOnAbort(r, calls) == r

\* src/umber.js:127-133: the catch of the import action logs the error and
\* ends the process; the writes issued before the failing call stay
CommittedOnAbort(r, calls) == ApplyCalls(r, calls)

\* src/umber.js:43-103 and 127-133: one iteration of the loop in which one
\* remote call fails: a category request, the lookup or the topic write.
\* One call fails per pass.
ReconcileFileFailing ==
    /\ ipc = "running"
    /\ idx <= Len(files)
    /\ failures = <<>>
    /\ LET normalizedFilePath == pathNormalize(files[idx])
           contentStr == content[files[idx]]
           hash == calculateHash(contentStr)
           fileName == pathBasename(normalizedFilePath)
           directoryPath == pathDirname(normalizedFilePath)
           cat == findOrCreateCategoryByPath(Remote, directoryPath, masterCid)
           r1 == ApplyCalls(Remote, cat.calls)
           filenameTag == createFilenameTag(fileName)
           Step(lookup, tid, writes) ==
               [filePath |-> normalizedFilePath, hash |-> hash, parentCid |-> cat.cid,
                lookup |-> lookup, storedHash |-> StoredHash(r1, lookup), tid |-> tid,
                unchanged |-> reconciled[files[idx]] = contentStr, writes |-> writes]
           Failure(call, status, after) ==
               [at |-> "file", step |-> Len(steps) + 1, call |-> call,
                status |-> status, after |-> after]
       IN  \E status \in Statuses :
           \/ \* a request of findOrCreateCategoryByPath fails after k creates
              /\ directoryPath # <<".">>
              /\ \E k \in 0..Max(0, Len(cat.calls) - 1) :
                    LET done == SubSeq(cat.calls, 1, k)
                        r2 == CommittedOnAbort(Remote, done)
                    IN  /\ categories' = r2.categories
                        /\ topics' = r2.topics
                        /\ posts' = r2.posts
                        /\ steps' = Append(steps, Step(Null, Null, done))
              /\ failures' = Append(failures, Failure("category", status, <<>>))
              /\ ipc' = "failed"
              /\ UNCHANGED <<idx, tocEntries, reconciled>>
           \/ \* the request of findTopicByMetadata fails and the catch rethrows
              /\ cat.cid # Null
              /\ LookupCatch(nodebbRevision, status) = "throw"
              /\ categories' = CommittedOnAbort(Remote, cat.calls).categories
              /\ topics' = CommittedOnAbort(Remote, cat.calls).topics
              /\ posts' = CommittedOnAbort(Remote, cat.calls).posts
              /\ steps' = Append(steps, Step(Null, Null, cat.calls))
              /\ failures' = Append(failures, Failure("lookup", status, <<>>))
              /\ ipc' = "failed"
              /\ UNCHANGED <<idx, tocEntries, reconciled>>
           \/ \* the request of findTopicByMetadata fails and the catch returns
              \* null: the create branch is taken
              /\ cat.cid # Null
              /\ LookupCatch(nodebbRevision, status) = "null"
              /\ LET calls == TopicCalls(r1, Null, normalizedFilePath, contentStr,
                                         cat.cid)
                     r2 == ApplyCalls(r1, calls)
                     tid == Len(r2.topics)
                 IN  /\ categories' = r2.categories
                     /\ topics' = r2.topics
                     /\ posts' = r2.posts
                     /\ tocEntries' = Append(tocEntries,
                            [filePath |-> normalizedFilePath, title |-> fileName,
                             tid |-> tid, slug |-> r2.topics[tid].slug])
                     /\ steps' = Append(steps, Step(Null, tid, cat.calls \o calls))
                     /\ failures' = Append(failures, Failure("lookup", status, calls))
              /\ reconciled' = [reconciled EXCEPT ![files[idx]] = content[files[idx]]]
              /\ idx' = idx + 1
              /\ UNCHANGED ipc
           \/ \* the request of createTopic or updateTopic fails
              \E existingTopic \in findTopicByMetadata(r1, filenameTag, cat.cid) :
                 /\ TopicCalls(r1, existingTopic, normalizedFilePath, contentStr,
                               cat.cid) # <<>>
                 /\ categories' = CommittedOnAbort(Remote, cat.calls).categories
                 /\ topics' = CommittedOnAbort(Remote, cat.calls).topics
                 /\ posts' = CommittedOnAbort(Remote, cat.calls).posts
                 /\ steps' = Append(steps, Step(existingTopic, existingTopic, cat.calls))
                 /\ failures' = Append(failures, Failure("write", status, <<>>))
                 /\ ipc' = "failed"
                 /\ UNCHANGED <<idx, tocEntries, reconciled>>
    /\ UNCHANGED <<files, content, config, passes, edits, nodebbRevision,
                   umberRevision, indexLog>>
    /\ UNCHANGED notImportVars

\* src/umber.js:105-123 and 127-133: the table-of-contents step in which the
\* lookup or the write fails
FinishPassFailing ==
    /\ ipc = "running"
    /\ idx > Len(files)
    /\ failures = <<>>
    /\ config.generate_toc
    /\ Len(tocEntries) > 0
    /\ LET tocFilenameTag == createFilenameTag(config.toc_title)
           lookup == LookupCall(tocFilenameTag, config.toc_cid)
           Failure(call, status, after) ==
               [at |-> "index", step |-> Len(steps), call |-> call,
                status |-> status, after |-> after]
       IN  \E status \in Statuses :
           \/ /\ config.toc_cid # Null
              /\ LookupCatch(nodebbRevision, status) = "throw"
              /\ indexLog' = <<lookup>>
              /\ failures' = Append(failures, Failure("lookup", status, <<>>))
              /\ ipc' = "failed"
              /\ UNCHANGED remoteVars
           \/ /\ config.toc_cid # Null
              /\ LookupCatch(nodebbRevision, status) = "null"
              /\ LET calls == TocCalls(Remote, Null)
                     r2 == ApplyCalls(Remote, calls)
                 IN  /\ categories' = r2.categories
                     /\ topics' = r2.topics
                     /\ posts' = r2.posts
                     /\ indexLog' = <<lookup>> \o calls
                     /\ failures' = Append(failures, Failure("lookup", status, calls))
              /\ ipc' = "idle"
           \/ /\ indexLog' = <<lookup>>
              /\ failures' = Append(failures, Failure("write", status, <<>>))
              /\ ipc' = "failed"
              /\ UNCHANGED remoteVars
    /\ UNCHANGED <<files, content, config, idx, tocEntries, steps, reconciled,
                   passes, edits, nodebbRevision, umberRevision>>
    /\ UNCHANGED notImportVars

\* as ImportInit, with either revision of findTopicByMetadata's catch
FailInit ==
    /\ files \in Listings
    /\ content = [f \in {files[i] : i \in 1..Len(files)} |-> 1]
    /\ categories = << [cid |-> 1, name |-> <<"t", "o", "c">>, parentCid |-> Null] >>
    /\ topics = <<>>
    /\ posts = <<>>
    /\ config \in [generate_toc : BOOLEAN, toc_cid : {1}, toc_title : {<<"T", "o", "C">>}]
    /\ ipc = "idle"
    /\ idx = 0
    /\ tocEntries = <<>>
    /\ steps = <<>>
    /\ reconciled = [f \in {files[i] : i \in 1..Len(files)} |-> 0]
    /\ passes = 0
    /\ edits = 0
    /\ nodebbRevision \in {"nodebb.js", "part_008"}
    /\ umberRevision = "umber.js"
    /\ failures = <<>>
    /\ indexLog = <<>>
    /\ ChunkIdle
    /\ CodecIdle
    /\ TagIdle
    /\ ResolverIdle
    /\ CreateIdle
    /\ DocIdle
    /\ HashIdle
    /\ UpdateIdle
    /\ StartupIdle
    /\ FlowIdle
    /\ PullIdle

\* the passes over a repository that does not change
FailNext ==
    \/ StartPass
    \/ ReconcileFile
    \/ FinishPass
    \/ ReconcileFileFailing
    \/ FinishPassFailing

SpecFail == FailInit /\ [][FailNext]_vars

\* as ImportInit, with either revision of the import action's loop body
TocInit ==
    /\ files \in Listings
    /\ content = [f \in {files[i] : i \in 1..Len(files)} |-> 1]
    /\ categories = << [cid |-> 1, name |-> <<"t", "o", "c">>, parentCid |-> Null] >>
    /\ topics = <<>>
    /\ posts = <<>>
    /\ config \in [generate_toc : BOOLEAN, toc_cid : {1}, toc_title : {<<"T", "o", "C">>}]
    /\ ipc = "idle"
    /\ idx = 0
    /\ tocEntries = <<>>
    /\ steps = <<>>
    /\ reconciled = [f \in {files[i] : i \in 1..Len(files)} |-> 0]
    /\ passes = 0
    /\ edits = 0
    /\ nodebbRevision = "nodebb.js"
    /\ umberRevision \in {"umber.js", "part_003"}
    /\ failures = <<>>
    /\ indexLog = <<>>
    /\ ChunkIdle
    /\ CodecIdle
    /\ TagIdle
    /\ ResolverIdle
    /\ CreateIdle
    /\ DocIdle
    /\ HashIdle
    /\ UpdateIdle
    /\ StartupIdle
    /\ FlowIdle
    /\ PullIdle

SpecToc == TocInit /\ [][Next]_vars

\* as ImportInit, with or without a category for the table of contents:
\* config.toc_cid of src/umber.js:108, the master category of
\* src/unnamed/part_000:42.  The contents of the model fit one chunk, so the
\* create branch of part_000 posts no reply.
IndexInit ==
    /\ files \in Listings
    /\ content = [f \in {files[i] : i \in 1..Len(files)} |-> 1]
    /\ categories = << [cid |-> 1, name |-> <<"t", "o", "c">>, parentCid |-> Null] >>
    /\ topics = <<>>
    /\ posts = <<>>
    /\ config \in [generate_toc : BOOLEAN, toc_cid : {Null, 1},
                    toc_title : {<<"T", "o", "C">>}]
    /\ ipc = "idle"
    /\ idx = 0
    /\ tocEntries = <<>>
    /\ steps = <<>>
    /\ reconciled = [f \in {files[i] : i \in 1..Len(files)} |-> 0]
    /\ passes = 0
    /\ edits = 0
    /\ nodebbRevision = "nodebb.js"
    /\ umberRevision \in {"umber.js", "part_000"}
    /\ failures = <<>>
    /\ indexLog = <<>>
    /\ ChunkIdle
    /\ CodecIdle
    /\ TagIdle
    /\ ResolverIdle
    /\ CreateIdle
    /\ DocIdle
    /\ HashIdle
    /\ UpdateIdle
    /\ StartupIdle
    /\ FlowIdle
    /\ PullIdle

SpecIndex == IndexInit /\ [][Next]_vars

\* the passes of src/umber.js (no base category) and of
\* src/unnamed/part_000 (categories below the master category), with the
\* table of contents switched on
PayloadInit ==
    /\ IndexInit
    /\ config.generate_toc
    /\ config.toc_cid # Null

SpecPayload == PayloadInit /\ [][Next]_vars

\* a repository whose directory a holds files whose names differ in
\* letter case or in a character outside [a-z0-9_] only
SiblingFiles == { <<"a", "/", "x", ".", "t">>, <<"a", "/", "x", "-", "t">>,
                  <<"a", "/", "X", ".", "t">> }

SiblingInit ==
    /\ files \in {l \in UNION {[1..k -> SiblingFiles] : k \in 1..MaxFiles} :
                    \A i, j \in 1..Len(l) : i # j => l[i] # l[j]}
    /\ content = [f \in {files[i] : i \in 1..Len(files)} |-> 1]
    /\ categories = << [cid |-> 1, name |-> <<"t", "o", "c">>, parentCid |-> Null] >>
    /\ topics = <<>>
    /\ posts = <<>>
    /\ config \in [generate_toc : BOOLEAN, toc_cid : {1}, toc_title : {<<"T", "o", "C">>}]
    /\ ipc = "idle"
    /\ idx = 0
    /\ tocEntries = <<>>
    /\ steps = <<>>
    /\ reconciled = [f \in {files[i] : i \in 1..Len(files)} |-> 0]
    /\ passes = 0
    /\ edits = 0
    /\ nodebbRevision = "nodebb.js"
    /\ umberRevision = "umber.js"
    /\ failures = <<>>
    /\ indexLog = <<>>
    /\ ChunkIdle
    /\ CodecIdle
    /\ TagIdle
    /\ ResolverIdle
    /\ CreateIdle
    /\ DocIdle
    /\ HashIdle
    /\ UpdateIdle
    /\ StartupIdle
    /\ FlowIdle
    /\ PullIdle

SpecSibling == SiblingInit /\ [][Next]_vars

\* lines 54-59: the early return, or the loop's initial state
ChunkEnter ==
    /\ cpc = "start"
    /\ IF Len(text) <= maxLength
       THEN /\ chunks' = ShortResult(text)
            /\ remainingText' = <<>>
            /\ cpc' = "done"
       ELSE /\ chunks' = <<>>
            /\ remainingText' = text
            /\ cpc' = "loop"
    /\ UNCHANGED <<text, maxLength>>
    /\ UNCHANGED notChunkVars

\* lines 61 and 86: the loop condition fails, chunks is returned
ChunkReturn ==
    /\ cpc = "loop"
    /\ Len(remainingText) = 0
    /\ cpc' = "done"
    /\ UNCHANGED <<text, maxLength, remainingText, chunks>>
    /\ UNCHANGED notChunkVars

\* lines 62-65: the rest fits, push it and break
ChunkLast ==
    /\ cpc = "loop"
    /\ Len(remainingText) > 0
    /\ Len(remainingText) <= maxLength
    /\ chunks' = Append(chunks, remainingText)
    /\ cpc' = "done"
    /\ UNCHANGED <<text, maxLength, remainingText>>
    /\ UNCHANGED notChunkVars

\* lines 67-83: one cut
ChunkCut ==
    /\ cpc = "loop"
    /\ Len(remainingText) > maxLength
    /\ chunks' = Append(chunks, ChunkPiece(remainingText, maxLength))
    /\ remainingText' = ChunkRest(remainingText, maxLength)
    /\ UNCHANGED <<text, maxLength, cpc>>
    /\ UNCHANGED notChunkVars

ChunkAlphabet == {"a", ".", " ", "\n"}

ChunkInit ==
    /\ text \in SeqsUpTo(ChunkAlphabet, MaxTextLen)
    /\ maxLength \in 1..MaxMaxLength
    /\ remainingText = <<>>
    /\ chunks = <<>>
    /\ cpc = "start"
    /\ CodecIdle
    /\ ImportIdle
    /\ TagIdle
    /\ ResolverIdle
    /\ CreateIdle
    /\ DocIdle
    /\ HashIdle
    /\ UpdateIdle
    /\ StartupIdle
    /\ FlowIdle
    /\ PullIdle

ChunkNext ==
    \/ ChunkEnter
    \/ ChunkReturn
    \/ ChunkLast
    \/ ChunkCut

SpecChunk == ChunkInit /\ [][ChunkNext]_vars

(***************************************************************************)
(* The codec round trip: decodePath(encodePath(p)).                        *)
(***************************************************************************)
CodecEncode ==
    /\ kpc = "start"
    /\ encoded' = encodePath(filePath)
    /\ kpc' = "encoded"
    /\ UNCHANGED <<filePath, decoded>>
    /\ UNCHANGED notCodecVars

CodecDecode ==
    /\ kpc = "encoded"
    /\ decoded' = decodePath(encoded)
    /\ kpc' = "decoded"
    /\ UNCHANGED <<filePath, encoded>>
    /\ UNCHANGED notCodecVars

PathAlphabet == {"a", "_", ".", "/"}

\* relative paths only
CodecInit ==
    /\ filePath \in {p \in SeqsUpTo(PathAlphabet, MaxPathLen) : p = <<>> \/ p[1] # "/"}
    /\ encoded = <<>>
    /\ decoded = <<>>
    /\ kpc = "start"
    /\ ChunkIdle
    /\ ImportIdle
    /\ TagIdle
    /\ ResolverIdle
    /\ CreateIdle
    /\ DocIdle
    /\ HashIdle
    /\ UpdateIdle
    /\ StartupIdle
    /\ FlowIdle
    /\ PullIdle

CodecNext ==
    \/ CodecEncode
    \/ CodecDecode

SpecCodec == CodecInit /\ [][CodecNext]_vars

(***************************************************************************)
(* Tag derivation: createFilenameTag applied to a filename and to a        *)
(* spelling of it in another letter case.                                  *)
(***************************************************************************)
\* utils.createFilenameTag(fileName), as src/umber.js:57 calls it
TagDerive ==
    /\ tpc = "start"
    /\ tagOut' = createFilenameTag(tagName)
    /\ tagOtherOut' = createFilenameTag(tagOther)
    /\ tpc' = "done"
    /\ UNCHANGED <<tagName, tagOther>>
    /\ UNCHANGED notTagVars

TagAlphabet == {"f", "F", "t", "T", ".", "_", "1", " "}

RECURSIVE CaseSpellings(_)
\* the strings that differ from n in letter case only
CaseSpellings(n) ==
    IF n = <<>> THEN {<<>>}
    ELSE {<<c>> \o rest :
            c \in {a \in TagAlphabet : toLowerCase(<<a>>) = toLowerCase(<<n[1]>>)},
            rest \in CaseSpellings(Tail(n))}

TagInit ==
    /\ tagName \in SeqsUpTo(TagAlphabet, MaxNameLen) \ {<<>>}
    /\ tagOther \in CaseSpellings(tagName)
    /\ tagOut = <<>>
    /\ tagOtherOut = <<>>
    /\ tpc = "start"
    /\ ChunkIdle
    /\ CodecIdle
    /\ ImportIdle
    /\ ResolverIdle
    /\ CreateIdle
    /\ DocIdle
    /\ HashIdle
    /\ UpdateIdle
    /\ StartupIdle
    /\ FlowIdle
    /\ PullIdle

TagNext ==
    \/ TagDerive

SpecTag == TagInit /\ [][TagNext]_vars

(***************************************************************************)
(* The category resolver on its own: one process resolves a sequence of    *)
(* directory paths with findOrCreateCategoryByPath, either the revision of *)
(* src/lib/nodebb.js (no cache) or that of src/unnamed/part_007 (with      *)
(* categoryCache).  remoteLog records every request, reads included.       *)
(***************************************************************************)
ListCategoriesCall(parentCid, part) ==
    [op |-> "listCategories", parentCid |-> parentCid, part |-> part]

DigitChars == <<"0", "1", "2", "3", "4", "5", "6", "7", "8", "9">>

RECURSIVE CidString(_)
\* `${parentCid}` of a positive cid
CidString(n) ==
    IF n < 10 THEN <<DigitChars[n + 1]>>
    ELSE CidString(n \div 10) \o <<DigitChars[(n % 10) + 1]>>

\* categoryCache.has / get / set (a Map keyed by strings)
CacheHas(cache, key) == key \in DOMAIN cache
CacheSet(cache, key, cid) ==
    [k \in (DOMAIN cache) \cup {key} |-> IF k = key THEN cid ELSE cache[k]]

\* A match that compares the parent with the category's own id.
MatchCategoryByCid(cats, part, parentCid) ==
    {k \in 1..Len(cats) :
        /\ toLowerCase(cats[k].name) = toLowerCase(part)
        /\ cats[k].cid = parentCid}

\* src/lib/nodebb.js:127-128 (src/unnamed/part_007:62-63 with the list the
\* forum returns for parentCid): the categories Array.find can return
MatchCategory(cats, part, parentCid) ==
    {k \in 1..Len(cats) :
        /\ toLowerCase(cats[k].name) = toLowerCase(part)
        /\ cats[k].parentCid = parentCid}

\* the first match, as Array.find returns it
FirstMatch(found) == CHOOSE k \in found : \A j \in found : k <= j

RECURSIVE WalkLogged(_, _, _, _)
\* src/lib/nodebb.js:123-142: every part lists the categories, then takes
\* the match or creates the category
WalkLogged(cats, parts, parentCid, log) ==
    IF parts = <<>> THEN [cats |-> cats, cid |-> parentCid, log |-> log]
    ELSE LET part == Head(parts)
             found == MatchCategory(cats, part, parentCid)
             listed == Append(log, ListCategoriesCall(parentCid, part))
         IN  IF found # {}
             THEN WalkLogged(cats, Tail(parts), cats[FirstMatch(found)].cid, listed)
             ELSE WalkLogged(
                      Append(cats, [cid |-> Len(cats) + 1, name |-> part,
                                    parentCid |-> parentCid]),
                      Tail(parts), Len(cats) + 1,
                      Append(listed, CreateCategoryCall(part, parentCid)))

\* src/unnamed/part_007:55: the cache key of a part under a parent
CurrentPathKey(parentCid, part) ==
    IF parentCid # Null THEN CidString(parentCid) \o <<":">> \o part ELSE part

RECURSIVE WalkCached(_, _, _, _, _)
\* src/unnamed/part_007:54-78: a cached part costs no request; any other is
\* listed, matched or created, and then cached
WalkCached(cats, cache, parts, parentCid, log) ==
    IF parts = <<>> THEN [cats |-> cats, cache |-> cache, cid |-> parentCid, log |-> log]
    ELSE LET part == Head(parts)
             currentPathKey == CurrentPathKey(parentCid, part)
             found == MatchCategory(cats, part, parentCid)
             listed == Append(log, ListCategoriesCall(parentCid, part))
         IN  IF CacheHas(cache, currentPathKey)
             THEN WalkCached(cats, cache, Tail(parts), cache[currentPathKey], log)
             ELSE IF found # {}
             THEN WalkCached(cats,
                      CacheSet(cache, currentPathKey, cats[FirstMatch(found)].cid),
                      Tail(parts), cats[FirstMatch(found)].cid, listed)
             ELSE WalkCached(
                      Append(cats, [cid |-> Len(cats) + 1, name |-> part,
                                    parentCid |-> parentCid]),
                      CacheSet(cache, currentPathKey, Len(cats) + 1),
                      Tail(parts), Len(cats) + 1,
                      Append(listed, CreateCategoryCall(part, parentCid)))

\* A walk that starts at the root whatever base it is given.
WalkStartAtRoot(baseCid) == Null

\* src/lib/nodebb.js:121: let parentCid = baseCid
WalkStart(baseCid) == baseCid

\* src/lib/nodebb.js:114-143: the walk starts at the baseCid given
ResolveUncached ==
    /\ rpc = "run"
    /\ resolver = "nodebb.js"
    /\ Len(resolved) < Len(requests)
    /\ LET categoryPath == requests[Len(resolved) + 1]
           w == IF categoryPath = <<".">> \/ categoryPath = <<>>
                THEN [cats |-> forumCategories, cid |-> baseCategory, log |-> remoteLog]
                ELSE WalkLogged(forumCategories, Split(categoryPath, "/"),
                                WalkStart(baseCategory), remoteLog)
       IN  /\ forumCategories' = w.cats
           /\ remoteLog' = w.log
           /\ resolved' = Append(resolved, w.cid)
    /\ UNCHANGED <<resolver, requests, categoryCache, baseCategory, rpc>>
    /\ UNCHANGED notResolverVars

\* src/unnamed/part_007:42-82
ResolveCached ==
    /\ rpc = "run"
    /\ resolver = "part_007"
    /\ Len(resolved) < Len(requests)
    /\ LET categoryPath == requests[Len(resolved) + 1]
           w == IF categoryPath = <<".">> \/ categoryPath = <<>>
                THEN [cats |-> forumCategories, cache |-> categoryCache,
                      cid |-> Null, log |-> remoteLog]
                ELSE IF CacheHas(categoryCache, categoryPath)
                THEN [cats |-> forumCategories, cache |-> categoryCache,
                      cid |-> categoryCache[categoryPath], log |-> remoteLog]
                ELSE LET walk == WalkCached(forumCategories, categoryCache,
                                     Split(pathNormalize(categoryPath), "/"),
                                     Null, remoteLog)
                     IN  [walk EXCEPT !.cache = CacheSet(walk.cache, categoryPath,
                                                          walk.cid)]
       IN  /\ forumCategories' = w.cats
           /\ categoryCache' = w.cache
           /\ remoteLog' = w.log
           /\ resolved' = Append(resolved, w.cid)
    /\ UNCHANGED <<resolver, requests, baseCategory, rpc>>
    /\ UNCHANGED notResolverVars

\* the process has resolved the directory of every file
ResolveDone ==
    /\ rpc = "run"
    /\ Len(resolved) = Len(requests)
    /\ rpc' = "done"
    /\ UNCHANGED <<resolver, requests, forumCategories, categoryCache, baseCategory,
                   remoteLog, resolved>>
    /\ UNCHANGED notResolverVars

\* the directories of the model
Directories == { <<".">>, <<"a">>, <<"A">>, <<"a", "/", "b">>, <<"a", "/", "c">>,
                 <<"1", ":", "b">> }

ResolverInit ==
    /\ resolver \in {"nodebb.js", "part_007"}
    /\ requests \in UNION {[1..k -> Directories] : k \in 1..MaxRequests}
    /\ forumCategories \in
          { <<>>, << [cid |-> 1, name |-> <<"a">>, parentCid |-> Null] >> }
    /\ categoryCache = <<>>
    \* part_007 takes no base; nodebb.js is called with the root or with a
    \* category of the forum (src/unnamed/part_003:65)
    /\ baseCategory \in IF resolver = "nodebb.js"
                    THEN {Null} \cup {forumCategories[k].cid : k \in 1..Len(forumCategories)}
                    ELSE {Null}
    /\ remoteLog = <<>>
    /\ resolved = <<>>
    /\ rpc = "run"
    /\ ChunkIdle
    /\ CodecIdle
    /\ ImportIdle
    /\ TagIdle
    /\ CreateIdle
    /\ DocIdle
    /\ HashIdle
    /\ UpdateIdle
    /\ StartupIdle
    /\ FlowIdle
    /\ PullIdle

\* config.master_category_name of the model
MasterCategoryName == <<"m">>

\* src/unnamed/part_000:40-42: the master category is found or created
\* before the files are fetched; its cid is the base of every file's walk
ResolveMaster ==
    /\ rpc = "master"
    /\ LET w == WalkLogged(forumCategories, Split(MasterCategoryName, "/"), Null,
                           remoteLog)
       IN  /\ forumCategories' = w.cats
           /\ remoteLog' = w.log
           /\ baseCategory' = w.cid
    /\ rpc' = "run"
    /\ UNCHANGED <<resolver, requests, categoryCache, resolved>>
    /\ UNCHANGED notResolverVars

\* the forums of the model: with or without the master category (spelled
\* in another case) and a category a beside it
MasterForums ==
    { <<>>,
      << [cid |-> 1, name |-> <<"M">>, parentCid |-> Null] >>,
      << [cid |-> 1, name |-> <<"a">>, parentCid |-> Null] >>,
      << [cid |-> 1, name |-> <<"a">>, parentCid |-> Null],
         [cid |-> 2, name |-> <<"M">>, parentCid |-> Null] >> }

\* src/unnamed/part_000 with src/lib/nodebb.js: a pass with a master
\* category configured
MasterInit ==
    /\ resolver = "nodebb.js"
    /\ requests \in UNION {[1..k -> Directories] : k \in 1..MaxRequests}
    /\ forumCategories \in MasterForums
    /\ categoryCache = <<>>
    /\ baseCategory = Null
    /\ remoteLog = <<>>
    /\ resolved = <<>>
    /\ rpc = "master"
    /\ ChunkIdle
    /\ CodecIdle
    /\ ImportIdle
    /\ TagIdle
    /\ CreateIdle
    /\ DocIdle
    /\ HashIdle
    /\ UpdateIdle
    /\ StartupIdle
    /\ FlowIdle
    /\ PullIdle

MasterNext ==
    \/ ResolveMaster
    \/ ResolveUncached
    \/ ResolveDone

SpecMaster == MasterInit /\ [][MasterNext]_vars

ResolverNext ==
    \/ ResolveUncached
    \/ ResolveCached
    \/ ResolveDone

SpecResolver == ResolverInit /\ [][ResolverNext]_vars

(***************************************************************************)
(* The create branch of the import action for one new file, request by     *)
(* request: src/umber.js:78-98 posts the whole content as one topic,       *)
(* src/unnamed/part_000:79-117 chunks it and posts the further chunks as   *)
(* replies.  A request is in flight from the moment it is sent until the   *)
(* forum has answered it; the forum answers the requests in flight in any  *)
(* order.                                                                  *)
(***************************************************************************)
\* the file of the create branch
NewFileName == <<"x", ".", "t">>

\* A call that does not wait for the answers of the requests before it.
AwaitedNever(pending) == TRUE

\* `await`: the caller goes on when no request of its own is unanswered
Awaited(pending) == pending = <<>>

\* src/umber.js:85-94: createTopic with the whole content
CreateTopicWhole ==
    /\ xpc = "start"
    /\ importer = "umber.js"
    /\ chunkList' = <<>>
    /\ inFlight' = Append(inFlight,
          [op |-> "createTopic", chunk |-> 0,
           content |-> FencedContent(NewFileName, newContent),
           customData |-> [contentHash |-> calculateHash(newContent)]])
    /\ wireLog' = Append(wireLog, [ev |-> "send", op |-> "createTopic", chunk |-> 0])
    /\ replyIndex' = 1
    /\ xpc' = "replies"
    /\ UNCHANGED <<importer, maxPostLength, newContent, newTopicData, forumTopic, forumPosts>>
    /\ UNCHANGED notCreateVars

\* src/unnamed/part_000:83-100: chunkText, then createTopic with chunk 0
CreateTopicChunked ==
    /\ xpc = "start"
    /\ importer = "part_000"
    /\ LET chunked == chunkText(newContent, maxPostLength)
       IN  /\ chunkList' = chunked
           /\ inFlight' = Append(inFlight,
                 [op |-> "createTopic", chunk |-> 0,
                  content |-> FencedContent(NewFileName, chunked[1]),
                  customData |-> [contentHash |-> calculateHash(newContent),
                                  isChunked |-> Len(chunked) > 1,
                                  chunkCount |-> Len(chunked)]])
    /\ wireLog' = Append(wireLog, [ev |-> "send", op |-> "createTopic", chunk |-> 0])
    /\ replyIndex' = 1
    /\ xpc' = "replies"
    /\ UNCHANGED <<importer, maxPostLength, newContent, newTopicData, forumTopic, forumPosts>>
    /\ UNCHANGED notCreateVars

\* src/unnamed/part_000:103-112: the next reply of the loop, sent once
\* createTopic and the reply before it have resolved
SendReply ==
    /\ xpc = "replies"
    /\ Awaited(inFlight)
    /\ replyIndex < Len(chunkList)
    /\ inFlight' = Append(inFlight,
          [op |-> "createReply", chunk |-> replyIndex,
           content |-> [continuedFrom |-> replyIndex,
                        fenced |-> FencedContent(NewFileName, chunkList[replyIndex + 1])]])
    /\ wireLog' = Append(wireLog,
                         [ev |-> "send", op |-> "createReply", chunk |-> replyIndex])
    /\ replyIndex' = replyIndex + 1
    /\ UNCHANGED <<importer, maxPostLength, newContent, chunkList, newTopicData, forumTopic,
                   forumPosts, xpc>>
    /\ UNCHANGED notCreateVars

\* the forum handles one request in flight and answers it
\* (src/lib/nodebb.js:84-85 and 154-155 resolve)
ForumAnswer ==
    /\ \E k \in 1..Len(inFlight) :
          LET req == inFlight[k]
          IN  /\ inFlight' = SubSeq(inFlight, 1, k - 1)
                                \o SubSeq(inFlight, k + 1, Len(inFlight))
              /\ wireLog' = Append(wireLog,
                                   [ev |-> "ack", op |-> req.op, chunk |-> req.chunk])
              /\ IF req.op = "createTopic"
                 THEN /\ forumTopic' = <<[tid |-> 1, customData |-> req.customData]>>
                      /\ forumPosts' = Append(forumPosts, req.content)
                      /\ newTopicData' = 1
                 ELSE /\ forumPosts' = IF forumTopic # <<>>
                                       THEN Append(forumPosts, req.content)
                                       ELSE forumPosts
                      /\ UNCHANGED <<forumTopic, newTopicData>>
    /\ UNCHANGED <<importer, maxPostLength, newContent, chunkList, replyIndex, xpc>>
    /\ UNCHANGED notCreateVars

\* src/unnamed/part_000:116-121 (src/umber.js:96-102): the branch is left
CreateFinish ==
    /\ xpc = "replies"
    /\ Awaited(inFlight)
    /\ replyIndex >= Len(chunkList)
    /\ xpc' = "done"
    /\ UNCHANGED <<importer, maxPostLength, newContent, chunkList, replyIndex, newTopicData,
                   inFlight, forumTopic, forumPosts, wireLog>>
    /\ UNCHANGED notCreateVars

CreateInit ==
    /\ importer \in {"umber.js", "part_000"}
    /\ maxPostLength = DefaultMaxLength
    /\ newContent \in SeqsUpTo(ChunkAlphabet, MaxContentLen)
    /\ chunkList = <<>>
    /\ replyIndex = 0
    /\ newTopicData = Null
    /\ inFlight = <<>>
    /\ forumTopic = <<>>
    /\ forumPosts = <<>>
    /\ wireLog = <<>>
    /\ xpc = "start"
    /\ ChunkIdle
    /\ CodecIdle
    /\ ImportIdle
    /\ TagIdle
    /\ ResolverIdle
    /\ DocIdle
    /\ HashIdle
    /\ UpdateIdle
    /\ StartupIdle
    /\ FlowIdle
    /\ PullIdle

CreateNext ==
    \/ CreateTopicWhole
    \/ CreateTopicChunked
    \/ SendReply
    \/ ForumAnswer
    \/ CreateFinish

SpecCreate == CreateInit /\ [][CreateNext]_vars

\* the create branch with a ceiling that leaves room for the code fence:
\* contents of every length up to MaxFencedLen
PostInit ==
    /\ importer \in {"umber.js", "part_000"}
    /\ maxPostLength = FencedCeiling
    /\ newContent \in {[i \in 1..n |-> "a"] : n \in 0..MaxFencedLen}
    /\ chunkList = <<>>
    /\ replyIndex = 0
    /\ newTopicData = Null
    /\ inFlight = <<>>
    /\ forumTopic = <<>>
    /\ forumPosts = <<>>
    /\ wireLog = <<>>
    /\ xpc = "start"
    /\ ChunkIdle
    /\ CodecIdle
    /\ ImportIdle
    /\ TagIdle
    /\ ResolverIdle
    /\ DocIdle
    /\ HashIdle
    /\ UpdateIdle
    /\ StartupIdle
    /\ FlowIdle
    /\ PullIdle

SpecPost == PostInit /\ [][CreateNext]_vars

\* the number of requests of the file that have failed so far
FailedRequests == Cardinality({k \in 1..Len(wireLog) : wireLog[k].ev = "fail"})

\* src/lib/nodebb.js:86-89, 157-160 and src/umber.js:127-133: the request
\* awaited fails, the error reaches the catch of the import action and the
\* process ends
RequestFails ==
    /\ xpc = "replies"
    /\ FailedRequests < MaxFailures
    /\ \E k \in 1..Len(inFlight) :
          wireLog' = Append(wireLog, [ev |-> "fail", op |-> inFlight[k].op,
                                      chunk |-> inFlight[k].chunk])
    /\ inFlight' = <<>>
    /\ xpc' = "failed"
    /\ UNCHANGED <<importer, maxPostLength, newContent, chunkList, replyIndex, newTopicData,
                   forumTopic, forumPosts>>
    /\ UNCHANGED notCreateVars

\* src/umber.js:60-78 (src/unnamed/part_000:61-78): the tool is run again on
\* the same content; the lookup finds the topic if the forum has it, and the
\* hashes are compared
Rerun ==
    /\ xpc = "failed"
    /\ wireLog' = Append(wireLog, [ev |-> "rerun", op |-> "findTopic", chunk |-> 0])
    /\ IF forumTopic = <<>>
       THEN xpc' = "start"
       ELSE /\ Outcome(1, forumTopic[1].customData.contentHash,
                       calculateHash(newContent)) = "skip"
            /\ xpc' = "done"
    /\ chunkList' = <<>>
    /\ replyIndex' = 0
    /\ newTopicData' = Null
    /\ UNCHANGED <<importer, maxPostLength, newContent, inFlight, forumTopic, forumPosts>>
    /\ UNCHANGED notCreateVars

RecoverNext ==
    \/ CreateTopicWhole
    \/ CreateTopicChunked
    \/ SendReply
    \/ ForumAnswer
    \/ CreateFinish
    \/ RequestFails
    \/ Rerun

SpecRecover == CreateInit /\ [][RecoverNext]_vars

(***************************************************************************)
(* Properties of the import action, checked under Spec.                    *)
(***************************************************************************)
\* the number of writes of a step with the given op
CountOp(step, op) == Cardinality({k \in 1..Len(step.writes) : step.writes[k].op = op})

\* the topics the forum holds for a source file
TopicsOf(path) ==
    {t \in 1..Len(topics) :
        /\ topics[t].customData.source = "github"
        /\ topics[t].customData.filePath = path}

\* C1: in every pass, a file whose content is what the previous pass over it
\* reconciled gets no remote write (no createCategory, createTopic or post
\* update), whatever its directory depth.
IdempotentPass ==
    \A i \in 1..Len(steps) : steps[i].unchanged => steps[i].writes = <<>>

\* C2: over any sequence of passes, the forum holds at most one topic per
\* source file path.
NoDuplicateTopics ==
    \A i \in 1..Len(files) : Cardinality(TopicsOf(pathNormalize(files[i]))) <= 1

\* C3: after the update of a file's existing topic, the topic's stored
\* contentHash is the fingerprint of the content just pushed.
UpdateRefreshesHash ==
    \A i \in 1..Len(steps) :
        (/\ i = Len(steps)
         /\ steps[i].lookup # Null
         /\ steps[i].storedHash # steps[i].hash)
            => topics[steps[i].lookup].customData.contentHash = steps[i].hash

\* C4: for each file of a pass the writes are decided by the lookup result
\* and the hash comparison alone: nothing found, exactly one createTopic and
\* no post update; found with another stored hash, exactly one write, the
\* update of the found topic's main post; found with the same hash, no
\* write at all.
OneOutcomePerFile ==
    \A i \in 1..Len(steps) :
        LET s == steps[i]
        IN  /\ s.lookup = Null =>
                  /\ CountOp(s, "createTopic") = 1
                  /\ CountOp(s, "updatePost") = 0
            /\ (s.lookup # Null /\ s.storedHash # s.hash) =>
                  /\ Len(s.writes) = 1
                  /\ s.writes[1].op = "updatePost"
                  /\ s.writes[1].pid = topics[s.lookup].mainPid
            /\ (s.lookup # Null /\ s.storedHash = s.hash) => s.writes = <<>>

\* a second pass, over two topics the first pass created, in which one file
\* was updated and the other skipped
OneOutcomePerFileWitness ==
    /\ passes = 2
    /\ Len(topics) >= 2
    /\ \E i \in 1..Len(steps) :
          steps[i].lookup # Null /\ steps[i].storedHash # steps[i].hash
    /\ \E i \in 1..Len(steps) :
          steps[i].lookup # Null /\ steps[i].storedHash = steps[i].hash

\* C12: the lookup of a file by (filenameTag, parentCid) returns the topic of
\* another file only if that topic's own filename tag (the last tag written
\* on create) is the looked-up tag, never because one of its directory-path
\* tags is.
LookupNotByDirectoryTag ==
    \A i \in 1..Len(steps) :
        LET s == steps[i]
            found == topics[s.lookup]
            filenameTag == createFilenameTag(pathBasename(s.filePath))
        IN  (s.lookup # Null /\ found.customData.filePath # s.filePath)
                => toLowerCase(found.tags[Len(found.tags)]) = toLowerCase(filenameTag)

\* C17: once a remote call of a pass has failed (an answer that is not a
\* plain not-found), the pass is aborted: the failed call is the last remote
\* call of its file, no further file is processed and the process has ended
\* in failure, so that no table-of-contents upsert follows.  Checked under
\* SpecFail.
FailFast ==
    \A k \in 1..Len(failures) :
        failures[k].status # 404 =>
            /\ failures[k].after = <<>>
            /\ Len(steps) = failures[k].step
            /\ ipc = "failed"

\* C28: a lookup that finds no topic, or is answered 404, is not an error and
\* the create branch follows (createTopic is issued); a lookup that fails in
\* any other way ends the pass and no createTopic follows it.  Checked under
\* SpecFail.
LookupClassification ==
    /\ \A i \in 1..Len(steps) :
          /\ steps[i].lookup = Null
          /\ ~\E k \in 1..Len(failures) :
                 failures[k].at = "file" /\ failures[k].step = i
          => \E w \in 1..Len(steps[i].writes) : steps[i].writes[w].op = "createTopic"
    /\ \A k \in 1..Len(failures) :
          failures[k].call = "lookup" =>
              IF failures[k].status = 404
              THEN \E w \in 1..Len(failures[k].after) :
                      failures[k].after[w].op = "createTopic"
              ELSE failures[k].after = <<>> /\ ipc = "failed"

\* C18: a file's entry is appended to the table-of-contents list exactly when
\* its topic id is known, so the list of a pass holds one entry, in order, for
\* every file processed so far (each was created, updated or found
\* unchanged), carrying the id of a topic of the forum that was written for
\* that file.  Checked under SpecToc.
TocAccumulation ==
    ipc \in {"running", "idle"} /\ passes > 0 =>
        /\ Len(tocEntries) = Len(steps)
        /\ \A i \in 1..Len(tocEntries) :
              /\ tocEntries[i].filePath = steps[i].filePath
              /\ tocEntries[i].tid = steps[i].tid
              /\ tocEntries[i].tid \in 1..Len(topics)

\* the topics that carry the table of contents: its title and its one tag
IndexTopics ==
    {t \in 1..Len(topics) :
        /\ topics[t].title = config.toc_title
        /\ topics[t].tags = <<createFilenameTag(config.toc_title)>>}

\* C19: the table-of-contents topic is looked up by its own filename tag in
\* its category and overwritten when found, created otherwise, so after any
\* number of passes the forum holds at most one table-of-contents topic.
\* Checked under SpecIndex.
AtMostOneIndexTopic == Cardinality(IndexTopics) <= 1

\* C20: the table-of-contents step issues no request when the option is off
\* or the pass has no entry, and no request before the last file is done;
\* when the option is on and the completed pass has an entry, it issued one
\* lookup followed by one write.  Checked under Spec.
IndexStepGated ==
    /\ indexLog # <<>> =>
          /\ config.generate_toc
          /\ Len(tocEntries) > 0
          /\ ipc = "idle"
          /\ idx > Len(files)
    /\ ipc = "idle" /\ passes > 0 /\ config.generate_toc /\ Len(tocEntries) > 0 =>
          /\ Len(indexLog) = 2
          /\ indexLog[1].op = "findTopic"
          /\ indexLog[2].op \in {"createTopic", "updatePost"}

\* a second pass with the option on has looked the topic up and overwritten it
IndexStepGatedWitness ==
    /\ ipc = "idle"
    /\ passes = 2
    /\ config.generate_toc
    /\ Len(indexLog) = 2
    /\ indexLog[2].op = "updatePost"

(***************************************************************************)
(* The start of the import action: config.json, the client, the repository *)
(* URL, then the first remote requests.  A setting that config.json does   *)
(* not have is "absent" (undefined).                                       *)
(***************************************************************************)
\* JavaScript truthiness of a value: undefined ("absent"), null and the
\* empty string are falsy
Truthy(v) == v \notin {"absent", "null", ""}

\* an init that tests the forum URL only
InitThrowsUrlOnly(cfg) == ~Truthy(cfg.nodebb_url)

\* src/lib/nodebb.js:13-15: init throws
InitThrows(cfg) == ~Truthy(cfg.nodebb_url) \/ ~Truthy(cfg.nodebb_api_token)

StartupInit ==
    /\ configFile \in BOOLEAN
    /\ settings \in [nodebb_url : {"absent", "", "https://forum"},
                      nodebb_api_token : {"absent", "", "token"},
                      target_repo_url : {"absent", "https://repo"},
                      repo : {"absent", "https://other"}]
    /\ apiClient = <<>>
    /\ startupCalls = <<>>
    /\ spc = "start"
    /\ ChunkIdle
    /\ CodecIdle
    /\ ImportIdle
    /\ TagIdle
    /\ ResolverIdle
    /\ CreateIdle
    /\ DocIdle
    /\ HashIdle
    /\ UpdateIdle
    /\ FlowIdle
    /\ PullIdle

\* src/umber.js:23-28: config.json is looked for and read
LoadConfig ==
    /\ spc = "start"
    /\ spc' = IF configFile THEN "loaded" ELSE "failed"
    /\ UNCHANGED <<configFile, settings, apiClient, startupCalls>>
    /\ UNCHANGED notStartupVars

\* src/umber.js:29 and src/lib/nodebb.js:12-26: nodebb.init(config); its
\* error is thrown outside the try block and ends the action
InitClient ==
    /\ spc = "loaded"
    /\ IF InitThrows(settings)
       THEN /\ spc' = "failed"
            /\ UNCHANGED apiClient
       ELSE /\ apiClient' = <<[baseURL |-> settings.nodebb_url,
                               token |-> settings.nodebb_api_token]>>
            /\ spc' = "initialised"
    /\ UNCHANGED <<configFile, settings, startupCalls>>
    /\ UNCHANGED notStartupVars

\* src/umber.js:31-35: options.repo || config.target_repo_url
ResolveRepoUrl ==
    /\ spc = "initialised"
    /\ spc' = IF Truthy(settings.repo) \/ Truthy(settings.target_repo_url)
              THEN "ready" ELSE "failed"
    /\ UNCHANGED <<configFile, settings, apiClient, startupCalls>>
    /\ UNCHANGED notStartupVars

\* src/umber.js:40: github.fetchRepoContents, the first remote request
FetchRepoContents ==
    /\ spc = "ready"
    /\ startupCalls' = Append(startupCalls,
          [to |-> IF Truthy(settings.repo) THEN settings.repo
                  ELSE settings.target_repo_url,
           token |-> "none"])
    /\ spc' = "fetched"
    /\ UNCHANGED <<configFile, settings, apiClient>>
    /\ UNCHANGED notStartupVars

\* src/umber.js:58 over src/lib/nodebb.js:125: the first request to the forum
FirstForumRequest ==
    /\ spc = "fetched"
    /\ startupCalls' = Append(startupCalls,
          [to |-> apiClient[1].baseURL, token |-> apiClient[1].token])
    /\ spc' = "running"
    /\ UNCHANGED <<configFile, settings, apiClient>>
    /\ UNCHANGED notStartupVars

StartupNext ==
    \/ LoadConfig
    \/ InitClient
    \/ ResolveRepoUrl
    \/ FetchRepoContents
    \/ FirstForumRequest

SpecStartup == StartupInit /\ [][StartupNext]_vars

\* C27: when config.json lacks the forum URL or the API token, the import
\* issues no remote request (to the repository host or to the forum) and
\* gets no further than the initialisation of the client, where it fails.
\* Checked under SpecStartup.
ConfigErrorBeforeRemote ==
    ~Truthy(settings.nodebb_url) \/ ~Truthy(settings.nodebb_api_token) =>
        /\ startupCalls = <<>>
        /\ spc \in {"start", "loaded", "failed"}

\* config.json is there and has the URL but no token: init has failed
ConfigErrorBeforeRemoteWitness ==
    /\ configFile
    /\ Truthy(settings.nodebb_url)
    /\ ~Truthy(settings.nodebb_api_token)
    /\ spc = "failed"
    /\ startupCalls = <<>>

(***************************************************************************)
(* The existing-topic branch on its own: the topic of the file x.t was     *)
(* created by a chunking create branch (src/unnamed/part_000:83-116), the  *)
(* file has any content now.  The topic has tid 1 and its posts have the   *)
(* pids 1 (main post), 2, 3, ...                                           *)
(***************************************************************************)
\* src/unnamed/part_000:83-112: the posts of a topic created from c
CreatedPosts(c) ==
    LET chunked == chunkText(c, DefaultMaxLength)
    IN  [i \in 1..Len(chunked) |->
            IF i = 1 THEN FencedContent(NewFileName, chunked[1])
            ELSE [continuedFrom |-> i - 1,
                  fenced |-> FencedContent(NewFileName, chunked[i])]]

\* src/unnamed/part_000:92-99: the customData of a topic created from c
CreatedCustomData(c) ==
    LET chunked == chunkText(c, DefaultMaxLength)
    IN  [contentHash |-> calculateHash(c), isChunked |-> Len(chunked) > 1,
         chunkCount |-> Len(chunked)]

RECURSIVE ApplyUpdates(_, _)
\* the forum's posts and customData after the writes of updateTopic
ApplyUpdates(t, calls) ==
    IF calls = <<>> THEN t
    ELSE LET c == Head(calls)
             t1 == IF c.op = "updatePost"
                   THEN [t EXCEPT !.posts =
                            [i \in 1..Len(t.posts) |->
                                IF i = c.pid THEN c.content ELSE t.posts[i]]]
                   ELSE [t EXCEPT !.customData = c.customData]
         IN  ApplyUpdates(t1, Tail(calls))

UpdateInit ==
    /\ updater \in {"umber.js", "part_001"}
    /\ oldContent \in SeqsUpTo({"a"}, MaxContentLen) \ {<<>>}
    /\ updContent \in SeqsUpTo({"a", "b"}, MaxContentLen) \ {<<>>}
    /\ topicCustomData = CreatedCustomData(oldContent)
    /\ topicPosts = CreatedPosts(oldContent)
    /\ updateLog = <<>>
    /\ warned = FALSE
    /\ upc = "start"
    /\ ChunkIdle
    /\ CodecIdle
    /\ ImportIdle
    /\ TagIdle
    /\ ResolverIdle
    /\ CreateIdle
    /\ DocIdle
    /\ HashIdle
    /\ StartupIdle
    /\ FlowIdle
    /\ PullIdle

\* src/umber.js:64-78 over src/lib/nodebb.js:99-112
UpdateExisting ==
    /\ upc = "start"
    /\ updater = "umber.js"
    /\ LET hash == calculateHash(updContent)
           calls == IF topicCustomData.contentHash # hash
                    THEN updateTopic(1, 1,
                             [content |-> FencedContent(NewFileName, updContent),
                              customData |-> [topicCustomData
                                                  EXCEPT !.contentHash = hash]])
                    ELSE <<>>
           after == ApplyUpdates([posts |-> topicPosts,
                                  customData |-> topicCustomData], calls)
       IN  /\ updateLog' = calls
           /\ topicPosts' = after.posts
           /\ topicCustomData' = after.customData
    /\ upc' = "done"
    /\ UNCHANGED <<updater, oldContent, updContent, warned>>
    /\ UNCHANGED notUpdateVars

\* src/unnamed/part_001:56-73 over src/unnamed/part_007:161-176
UpdateExistingGuarded ==
    /\ upc = "start"
    /\ updater = "part_001"
    /\ LET hash == calculateHash(updContent)
           skips == \/ topicCustomData.isChunked
                    \/ /\ topicCustomData.contentHash # hash
                       /\ Len(updContent) > DefaultMaxLength
           calls == IF ~skips /\ topicCustomData.contentHash # hash
                    THEN updateTopicAndData(1, 1,
                             [content |-> FencedContent(NewFileName, updContent),
                              customData |-> [topicCustomData
                                                  EXCEPT !.contentHash = hash]])
                    ELSE <<>>
           after == ApplyUpdates([posts |-> topicPosts,
                                  customData |-> topicCustomData], calls)
       IN  /\ updateLog' = calls
           /\ warned' = skips
           /\ topicPosts' = after.posts
           /\ topicCustomData' = after.customData
    /\ upc' = "done"
    /\ UNCHANGED <<updater, oldContent, updContent>>
    /\ UNCHANGED notUpdateVars

UpdateNext ==
    \/ UpdateExisting
    \/ UpdateExistingGuarded

SpecUpdate == UpdateInit /\ [][UpdateNext]_vars

\* C23: when the new content of a file whose topic is not chunked is longer
\* than a post may be, the main post is not overwritten with it: the branch
\* skips with a warning, or writes posts that fit.  Checked under SpecUpdate.
NoOversizedUpdate ==
    /\ upc = "done"
    /\ ~CreatedCustomData(oldContent).isChunked
    /\ Len(updContent) > DefaultMaxLength
    => /\ \A k \in 1..Len(updateLog) :
             updateLog[k].op = "updatePost" =>
                 Len(updateLog[k].content.body) <= DefaultMaxLength
       /\ updateLog = <<>> => warned

\* C24: when the file of a chunked topic has changed, the branch either skips
\* with a warning and writes nothing, or overwrites the main post and no
\* other post; the reply posts stay as they were created.  Checked under
\* SpecUpdate.
ChunkedUpdatePolicy ==
    /\ upc = "done"
    /\ CreatedCustomData(oldContent).isChunked
    /\ oldContent # updContent
    => /\ \/ warned /\ updateLog = <<>>
          \/ /\ ~warned
             /\ Cardinality({k \in 1..Len(updateLog) :
                                updateLog[k].op = "updatePost"}) = 1
             /\ \A k \in 1..Len(updateLog) :
                   updateLog[k].op = "updatePost" => updateLog[k].pid = 1
       /\ Len(topicPosts) = Len(CreatedPosts(oldContent))
       /\ \A i \in 2..Len(topicPosts) : topicPosts[i] = CreatedPosts(oldContent)[i]

\* the changed file of a topic of three posts: the main post was overwritten
ChunkedUpdatePolicyWitness ==
    /\ upc = "done"
    /\ CreatedCustomData(oldContent).chunkCount = 3
    /\ oldContent # updContent
    /\ Len(updateLog) = 1
    /\ topicPosts[1] # CreatedPosts(oldContent)[1]

(***************************************************************************)
(* The fingerprint of one file imported twice, checked out with other line *)
(* endings the second time.                                                *)
(***************************************************************************)
\* src/umber.js:47-48 and src/unnamed/part_003:56-59: the hash of a file
HashOfFile(revision, contentStr) ==
    IF revision = "part_003"
    THEN calculateHash(ReplaceAll(contentStr, <<"\r", "\n">>, <<"\n">>))
    ELSE calculateHash(contentStr)

RECURSIVE LineEndingSpellings(_)
\* the checkouts of a text with LF line endings: each line ends with LF or
\* with CRLF
LineEndingSpellings(t) ==
    IF t = <<>> THEN {<<>>}
    ELSE {h \o rest :
            h \in (IF t[1] = "\n" THEN {<<"\n">>, <<"\r", "\n">>} ELSE {<<t[1]>>}),
            rest \in LineEndingSpellings(Tail(t))}

HashInit ==
    /\ hashRevision \in {"umber.js", "part_003"}
    /\ \E t \in SeqsUpTo({"a", "\n"}, MaxLfLen) :
          /\ firstContent \in LineEndingSpellings(t)
          /\ secondContent \in LineEndingSpellings(t)
    /\ contentHash = <<>>
    /\ secondOutcome = "none"
    /\ hpc = "start"
    /\ ChunkIdle
    /\ CodecIdle
    /\ ImportIdle
    /\ TagIdle
    /\ ResolverIdle
    /\ CreateIdle
    /\ DocIdle
    /\ UpdateIdle
    /\ StartupIdle
    /\ FlowIdle
    /\ PullIdle

\* src/umber.js:47-48, 85-94: the first import creates the topic with the
\* hash of the content in its customData
FirstImport ==
    /\ hpc = "start"
    /\ contentHash' = HashOfFile(hashRevision, firstContent)
    /\ hpc' = "imported"
    /\ UNCHANGED <<hashRevision, firstContent, secondContent, secondOutcome>>
    /\ UNCHANGED notHashVars

\* src/umber.js:47-48, 64-78: the second import finds the topic and compares
\* the stored hash with the hash of the content
SecondImport ==
    /\ hpc = "imported"
    /\ secondOutcome' = Outcome(1, contentHash, HashOfFile(hashRevision, secondContent))
    /\ hpc' = "done"
    /\ UNCHANGED <<hashRevision, firstContent, secondContent, contentHash>>
    /\ UNCHANGED notHashVars

HashNext ==
    \/ FirstImport
    \/ SecondImport

SpecHash == HashInit /\ [][HashNext]_vars

\* C22: a file whose content differs from the imported one in the
\* line-ending convention only (CRLF for LF or back) has the same
\* fingerprint, so its second import takes the skip branch.  Checked under
\* SpecHash.
LineEndingIndependent == hpc = "done" => secondOutcome = "skip"

(***************************************************************************)
(* generateTocMarkdown on its own: any list of entries, in any order.      *)
(***************************************************************************)
\* the file paths of the entries
DocPaths == { <<"a">>, <<"B">>, <<"b">>, <<"A", "/", "a">>, <<"a", "/", "b">> }

\* the entries the pass has accumulated for the paths l, processed in that
\* order: the i-th topic has tid i and the forum's slug of its title
DocEntriesOf(l) ==
    [i \in 1..Len(l) |->
        [filePath |-> l[i], title |-> pathBasename(l[i]), tid |-> i,
         slug |-> <<i, toLowerCase(pathBasename(l[i]))>>]]

DocInit ==
    /\ utilsRevision \in {"utils.js", "part_005"}
    /\ \E l \in UNION {[1..k -> DocPaths] :
                        k \in 0..Min(MaxEntries, Cardinality(DocPaths))} :
          /\ \A i, j \in 1..Len(l) : i # j => l[i] # l[j]
          /\ docEntries = DocEntriesOf(l)
    /\ docMarkdown = <<>>
    /\ dpc = "start"
    /\ ChunkIdle
    /\ CodecIdle
    /\ ImportIdle
    /\ TagIdle
    /\ ResolverIdle
    /\ CreateIdle
    /\ HashIdle
    /\ UpdateIdle
    /\ StartupIdle
    /\ FlowIdle
    /\ PullIdle

\* src/lib/utils.js:95-110
GenerateToc ==
    /\ dpc = "start"
    /\ utilsRevision = "utils.js"
    /\ docMarkdown' = generateTocMarkdown(docEntries)
    /\ dpc' = "done"
    /\ UNCHANGED <<utilsRevision, docEntries>>
    /\ UNCHANGED notDocVars

\* src/unnamed/part_005:31-43
GenerateTocSlugOnly ==
    /\ dpc = "start"
    /\ utilsRevision = "part_005"
    /\ docMarkdown' = generateTocMarkdownSlugOnly(docEntries)
    /\ dpc' = "done"
    /\ UNCHANGED <<utilsRevision, docEntries>>
    /\ UNCHANGED notDocVars

DocNext ==
    \/ GenerateToc
    \/ GenerateTocSlugOnly

SpecDoc == DocInit /\ [][DocNext]_vars

\* the entry a bullet was rendered from: slugs are unique
EntryOfBullet(b) == CHOOSE e \in 1..Len(docEntries) : docEntries[e].slug = b.slug

\* header first, then one bullet for every entry and no other
OneBulletPerEntry ==
    /\ docMarkdown.header = "toc_header_content"
    /\ Len(docMarkdown.bullets) = Len(docEntries)
    /\ \A e \in 1..Len(docEntries) :
          Cardinality({i \in 1..Len(docMarkdown.bullets) :
                          /\ docMarkdown.bullets[i].slug = docEntries[e].slug
                          /\ docMarkdown.bullets[i].title = docEntries[e].title}) = 1

\* C21 as stated: the document is the header followed by one bullet per
\* entry, and the bullets are in the lexicographic order of the entries'
\* paths, whatever the order of processing.  Checked under SpecDoc.
TocLexicographic ==
    dpc = "done" =>
        /\ OneBulletPerEntry
        /\ \A i, j \in 1..Len(docMarkdown.bullets) :
              i < j => CodeUnitBefore(
                           docEntries[EntryOfBullet(docMarkdown.bullets[i])].filePath,
                           docEntries[EntryOfBullet(docMarkdown.bullets[j])].filePath)

\* C21 amended: the document is the header followed by one bullet per entry,
\* and the bullets are in the order localeCompare gives the entries' paths
\* (letters compared without case first, a before B), whatever the order of
\* processing.  Checked under SpecDoc.
TocCollated ==
    dpc = "done" =>
        /\ OneBulletPerEntry
        /\ \A i, j \in 1..Len(docMarkdown.bullets) :
              i < j => PathBefore(
                           docEntries[EntryOfBullet(docMarkdown.bullets[i])].filePath,
                           docEntries[EntryOfBullet(docMarkdown.bullets[j])].filePath)

\* three entries processed in an order that is not the order of the document
TocCollatedWitness ==
    /\ dpc = "done"
    /\ Len(docEntries) = 3
    /\ \E i \in 1..3 : EntryOfBullet(docMarkdown.bullets[i]) # i

\* the pass overwrote the post pid after its write k of step i
OverwrittenLater(pid, i, k) ==
    \E j \in i..Len(steps) : \E m \in 1..Len(steps[j].writes) :
        /\ j > i \/ m > k
        /\ steps[j].writes[m].op = "updatePost"
        /\ steps[j].writes[m].pid = pid

\* write k of step i of the pass is on the forum: the category or topic it
\* created exists, and the post it wrote has the content it sent unless a
\* later write of the pass replaced it
Committed(i, k) ==
    LET w == steps[i].writes[k]
    IN  IF w.op = "createCategory"
        THEN \E c \in 1..Len(categories) :
                /\ categories[c].name = w.name
                /\ categories[c].parentCid = w.parentCid
        ELSE IF w.op = "createTopic"
        THEN \E t \in 1..Len(topics) :
                /\ topics[t].title = w.topicData.title
                /\ topics[t].cid = w.topicData.cid
                /\ topics[t].customData = w.topicData.customData
                /\ \/ posts[topics[t].mainPid].content = w.topicData.content
                   \/ OverwrittenLater(topics[t].mainPid, i, k)
        ELSE /\ w.op = "updatePost"
             /\ \/ posts[w.pid].content = w.content
                \/ OverwrittenLater(w.pid, i, k)

\* C26: after a pass has aborted on a failed remote call, every category,
\* topic and post write the pass issued before the failure is on the forum
\* as written, and every write of the pass is a create or a post update (no
\* delete, no undo).  Checked under SpecFail.
NoRollback ==
    ipc = "failed" =>
        \A i \in 1..Len(steps) : \A k \in 1..Len(steps[i].writes) :
            /\ steps[i].writes[k].op \in {"createCategory", "createTopic", "updatePost"}
            /\ Committed(i, k)

\* a pass that created the categories of its second file and failed on it,
\* after the first file was written
NoRollbackWitness ==
    /\ ipc = "failed"
    /\ Len(steps) = 2
    /\ steps[1].writes # <<>>
    /\ steps[2].writes # <<>>

(***************************************************************************)
(* Properties of chunkText, checked under SpecChunk.                       *)
(***************************************************************************)
AllWhitespace(s) == \A i \in 1..Len(s) : s[i] \in Whitespace

NoWhitespace(s) == \A i \in 1..Len(s) : s[i] \notin Whitespace

RECURSIVE Covers(_, _)
\* t is the chunks cs in order, with runs of whitespace before, between and
\* after them
Covers(t, cs) ==
    IF cs = <<>> THEN AllWhitespace(t)
    ELSE \E k \in 0..Len(t) :
            /\ AllWhitespace(Substring(t, 0, k))
            /\ OccursAt(t, cs[1], k)
            /\ Covers(SubstringFrom(t, k + Len(cs[1])), Tail(cs))

\* text has a newline at 0-based index p
NewlineAt(p) == p < Len(text) /\ text[p + 1] = "\n"

\* the indices the boundary preference speaks of: maxLength/2 < p < maxLength
BackHalf == {p \in 0..MaxTextLen : 2 * p > maxLength /\ p < maxLength}

\* C5: when chunkText has returned, every element of the result has length
\* <= maxLength.
ChunkSizeBound ==
    cpc = "done" => \A i \in 1..Len(chunks) : Len(chunks[i]) <= maxLength

\* C6: when chunkText has returned, text is the chunks in order separated
\* (and surrounded) only by whitespace: nothing but boundary whitespace is
\* lost, nothing is duplicated or reordered.
ChunkCoverage == cpc = "done" => Covers(text, chunks)

\* a returned result of several chunks where boundary whitespace was trimmed
\* and a later chunk follows a hard cut
ChunkCoverageWitness ==
    /\ cpc = "done"
    /\ Len(chunks) >= 3
    /\ Len(Concat(chunks)) < Len(text)
    /\ Len(chunks[1]) = maxLength

\* C7: for every text and every positive maxLength, every iteration of the
\* loop that is followed by another one strictly shortens remainingText; the
\* length is a natural number, so the loop runs at most Len(text) times before
\* chunkText returns.
ChunkProgress ==
    [][cpc = "loop" /\ cpc' = "loop" => Len(remainingText') < Len(remainingText)]_vars

\* a text without any whitespace, longer than maxLength, was chunked to the end
ChunkProgressWitness ==
    /\ cpc = "done"
    /\ NoWhitespace(text)
    /\ Len(text) > 2 * maxLength
    /\ Len(chunks) >= 3

\* C8 as stated: with a newline at p, maxLength/2 < p < maxLength, in a text
\* longer than maxLength, the first chunk ends at or before that newline.
ChunkEndsAtOrBeforeNewline ==
    cpc = "done" /\ Len(text) > maxLength =>
        \A p \in BackHalf :
            NewlineAt(p) => \E q \in 0..p : chunks[1] = Trim(Substring(text, 0, q))

\* C8 as amended: with a newline at p, maxLength/2 < p < maxLength, in a text
\* longer than maxLength, the first chunk ends at a newline, namely the last
\* newline at or before index maxLength, which is at or after p.
ChunkEndsAtLastNewline ==
    cpc = "done" /\ Len(text) > maxLength =>
        \A p \in BackHalf :
            NewlineAt(p) =>
                \E q \in p..maxLength :
                    /\ NewlineAt(q)
                    /\ \A r \in (q + 1)..maxLength : ~NewlineAt(r)
                    /\ chunks[1] = Trim(Substring(text, 0, q))

\* a text with a newline at p in the back half, a word after it and a later
\* newline still inside the window
ChunkEndsAtLastNewlineWitness ==
    /\ cpc = "done"
    /\ Len(text) > maxLength
    /\ \E p \in BackHalf : \E q \in (p + 2)..maxLength :
            /\ NewlineAt(p)
            /\ NewlineAt(q)
            /\ text[q] \notin Whitespace
            /\ Len(chunks[1]) > p

\* C9: the result has at least one element, and a text of length <= maxLength
\* comes back as the one-element sequence holding the text itself.
ChunkShortUnchanged ==
    cpc = "done" =>
        /\ Len(chunks) >= 1
        /\ (Len(text) <= maxLength => chunks = <<text>>)

\* a short text with whitespace at both ends came back as it was
ChunkShortUnchangedWitness ==
    /\ cpc = "done"
    /\ Len(text) >= 3
    /\ Len(text) <= maxLength
    /\ text[1] \in Whitespace
    /\ text[Len(text)] \in Whitespace
    /\ chunks = <<text>>

(***************************************************************************)
(* Properties of the path codec, checked under SpecCodec.                  *)
(***************************************************************************)
\* C10: for a relative path that contains neither sentinel, decoding the
\* encoded path gives the normalized path.
CodecRoundTrip ==
    (/\ kpc = "decoded"
     /\ ~Contains(filePath, SlashSentinel)
     /\ ~Contains(filePath, DotSentinel))
        => decoded = pathNormalize(filePath)

(***************************************************************************)
(* Properties of createFilenameTag, checked under SpecTag.                 *)
(***************************************************************************)
\* C11: two filenames that differ only in letter case get the same tag, and
\* the tag of a non-empty filename is a non-empty string over [a-z0-9_-].
TagCaseInsensitive ==
    tpc = "done" =>
        /\ tagOut = tagOtherOut
        /\ Len(tagOut) >= 1
        /\ \A i \in 1..Len(tagOut) : tagOut[i] \in TagChars \cup {"-"}

\* the tags of "F.T" and "f.t" were derived
TagCaseInsensitiveWitness ==
    /\ tpc = "done"
    /\ tagName = <<"F", ".", "T">>
    /\ tagOther = <<"f", ".", "t">>
    /\ tagOut = <<"f", "-", "t">>

(***************************************************************************)
(* Properties of the category resolver, checked under SpecResolver.        *)
(***************************************************************************)
\* the requests of the log with the given op for the part under the parent
CallsFor(op, parentCid, part) ==
    {k \in 1..Len(remoteLog) :
        /\ remoteLog[k].op = op
        /\ remoteLog[k].parentCid = parentCid
        /\ IF op = "createCategory" THEN toLowerCase(remoteLog[k].name) = toLowerCase(part)
           ELSE remoteLog[k].part = part}

\* C13: within one process, at most one createCategory is issued for every
\* (parent category, segment name) pair, and two resolutions of the same
\* directory return the same category id.
CategoryCreatedOnce ==
    /\ \A k \in 1..Len(remoteLog) :
          remoteLog[k].op = "createCategory" =>
              Cardinality(CallsFor("createCategory", remoteLog[k].parentCid,
                                   remoteLog[k].name)) = 1
    /\ \A i, j \in 1..Len(resolved) :
          pathNormalize(requests[i]) = pathNormalize(requests[j])
              => resolved[i] = resolved[j]

\* directory a was resolved twice on a forum without it: one id, one create
CategoryCreatedOnceWitness ==
    /\ rpc = "done"
    /\ Len(requests) >= 2
    /\ requests[1] = <<"a">>
    /\ requests[2] = <<"a">>
    /\ resolved[1] = resolved[2]
    /\ resolved[1] # Null
    /\ Cardinality(CallsFor("createCategory", Null, <<"a">>)) = 1

\* C14: the resolver memoizes per (parentId, segmentName): for every such
\* pair at most one listCategories request is issued by the process, so a/b
\* and then a/c list for segment a once, and a path resolved before costs no
\* request.
SegmentResolvedOnce ==
    \A k \in 1..Len(remoteLog) :
        remoteLog[k].op = "listCategories" =>
            Cardinality(CallsFor("listCategories", remoteLog[k].parentCid,
                                 remoteLog[k].part)) = 1

(***************************************************************************)
(* The category resolution walk, checked under SpecResolver.               *)
(***************************************************************************)
\* the category of the forum with the given cid
CategoryOf(cid) ==
    forumCategories[CHOOSE k \in 1..Len(forumCategories) :
                        forumCategories[k].cid = cid]

RECURSIVE AncestorChain(_)
\* the categories from the root down to cid, cid included
AncestorChain(cid) ==
    IF cid = Null THEN <<>>
    ELSE Append(AncestorChain(CategoryOf(cid).parentCid), cid)

\* the names on the ancestor chain of cid below the base; <<"?">> stands
\* for a category that is not below the base
ChainBelowBase(cid) ==
    LET chain == AncestorChain(cid)
        from == IF baseCategory = Null THEN 0
                ELSE IF \E k \in 1..Len(chain) : chain[k] = baseCategory
                THEN CHOOSE k \in 1..Len(chain) : chain[k] = baseCategory
                ELSE -1
    IN  IF from = -1 THEN << <<"?">> >>
        ELSE [k \in 1..(Len(chain) - from) |-> CategoryOf(chain[from + k]).name]

\* the segments of a directory path
PathSegments(categoryPath) ==
    IF categoryPath = <<".">> \/ categoryPath = <<>> THEN <<>>
    ELSE Split(categoryPath, "/")

\* C30: the walk creates a category only where the parent has no child of
\* that name (without regard to case), and the category returned for a path
\* has, below the base category, an ancestor chain whose names are the
\* path's segments in order (compared as the walk compares them, without
\* regard to case).
CategoryChainFollowsPath ==
    /\ \A j, k \in 1..Len(forumCategories) :
          /\ forumCategories[j].parentCid = forumCategories[k].parentCid
          /\ toLowerCase(forumCategories[j].name) = toLowerCase(forumCategories[k].name)
          => j = k
    /\ \A i \in 1..Len(resolved) :
          LET names == ChainBelowBase(resolved[i])
              segments == PathSegments(requests[i])
          IN  /\ Len(names) = Len(segments)
              /\ \A k \in 1..Len(names) :
                    toLowerCase(names[k]) = toLowerCase(segments[k])

(***************************************************************************)
(* Properties of the create branch, checked under SpecCreate.              *)
(***************************************************************************)
\* C15: when the content of a new file chunks into N pieces, the topic has
\* exactly N posts once the branch is left (the main post with chunk 0 and
\* N-1 replies with chunks 1..N-1, in order), and its customData records
\* isChunked = (N > 1) and chunkCount = N.
ChunkedCreate ==
    xpc = "done" =>
        LET pieces == chunkText(newContent, DefaultMaxLength)
            N == Len(pieces)
        IN  /\ Len(forumPosts) = N
            /\ forumPosts[1] = FencedContent(NewFileName, pieces[1])
            /\ \A i \in 1..(N - 1) :
                  forumPosts[i + 1].fenced = FencedContent(NewFileName, pieces[i + 1])
            /\ {"isChunked", "chunkCount"} \subseteq DOMAIN forumTopic[1].customData
            /\ forumTopic[1].customData.isChunked = (N > 1)
            /\ forumTopic[1].customData.chunkCount = N

\* the posts a run of the create branch without failure leaves on the forum
PostsOfCleanRun ==
    IF importer = "part_000" THEN CreatedPosts(newContent)
    ELSE <<FencedContent(NewFileName, newContent)>>

\* C25: once a run completes after runs that aborted on a failed request
\* (the createTopic, or a reply after the main post was created), the file
\* is imported as a run without failure imports it: one topic with all the
\* posts of its content.  Checked under SpecRecover.
RecoveredByRerun ==
    xpc = "done" =>
        /\ Len(forumTopic) = 1
        /\ forumPosts = PostsOfCleanRun

\* C16: a reply is sent only right after the answer to the request before
\* it: reply 1 after the answer to createTopic, reply i+1 after the answer
\* to reply i; so the replies go out in increasing chunk order, one at a
\* time.
RepliesInOrder ==
    \A k \in 1..Len(wireLog) :
        (wireLog[k].ev = "send" /\ wireLog[k].op = "createReply") =>
            /\ k > 1
            /\ wireLog[k - 1].ev = "ack"
            /\ wireLog[k - 1].chunk = wireLog[k].chunk - 1
            /\ wireLog[k - 1].op =
                  IF wireLog[k].chunk = 1 THEN "createTopic" ELSE "createReply"

\* a file of three chunks was created: one topic and two replies, each sent
\* and answered
RepliesInOrderWitness ==
    /\ xpc = "done"
    /\ Len(chunkList) = 3
    /\ Len(forumPosts) = 3
    /\ Len(wireLog) = 6


(***************************************************************************)
(* Cut-point selection of chunkText (src/lib/utils.js:67-83).              *)
(***************************************************************************)
\* the indices of the current window, 0..maxLength, where pat starts
WindowHits(pat) == {i \in 0..maxLength : OccursAt(remainingText, pat, i)}

LastOf(S) == CHOOSE i \in S : \A j \in S : j <= i

PastHalf(S) == S # {} /\ 2 * LastOf(S) > maxLength

\* the cut point the documentation gives for the current window
DocumentedCut ==
    LET newlines == WindowHits(<<"\n">>)
        sentences == WindowHits(<<".", " ">>)
        spaces == WindowHits(<<" ">>)
    IN  IF PastHalf(newlines) THEN LastOf(newlines)
        ELSE IF PastHalf(sentences) THEN LastOf(sentences) + 1
        ELSE IF PastHalf(spaces) THEN LastOf(spaces)
        ELSE maxLength

RECURSIVE CategoryNames(_)
\* the names of the categories from the root down to cid, cid included
CategoryNames(cid) ==
    IF cid = Null THEN <<>>
    ELSE LET c == categories[CHOOSE k \in 1..Len(categories) : categories[k].cid = cid]
         IN  Append(CategoryNames(c.parentCid), c.name)

\* the names of the directories of a file, outermost first
DirectoriesOf(file) ==
    LET parts == Split(file, "/")
    IN  SubSeq(parts, 1, Len(parts) - 1)

\* the steps of the running pass that created a topic
CreatingSteps ==
    {s \in 1..Len(steps) : steps[s].lookup = Null /\ steps[s].tid # Null}

\* C31: a topic created for a file lies in the category resolved for the
\* file's directory (the category below the base whose ancestors are named
\* as the directories; the base itself for a root file), its tags are the
\* names of the directories, without ".", followed by the filename tag, and
\* its contentHash is the fingerprint of the file's whole content, the value
\* the next pass computes for the unchanged file.
CreatedTopicPayload ==
    ipc = "running" =>
        \A s \in CreatingSteps :
            LET topic == topics[steps[s].tid]
                file == steps[s].filePath
                dirs == DirectoriesOf(file)
                below == CategoryNames(topic.cid)
                base == CategoryNames(masterCid)
            IN  /\ topic.cid = steps[s].parentCid
                /\ below = base \o dirs
                /\ topic.tags = dirs \o <<createFilenameTag(pathBasename(file))>>
                /\ \A k \in 1..Len(topic.tags) : topic.tags[k] # <<".">>
                /\ topic.customData.contentHash = calculateHash(content[file])
                /\ topic.customData.filePath = file

\* the topic of a/b/X.t was created two directories below the base, and the
\* topic of the root file r in the base
CreatedTopicPayloadWitness ==
    /\ ipc = "running"
    /\ \E s, r \in CreatingSteps :
          /\ steps[s].filePath = <<"a", "/", "b", "/", "X", ".", "t">>
          /\ topics[steps[s].tid].tags = << <<"a">>, <<"b">>, <<"x", "-", "t">> >>
          /\ steps[r].filePath = <<"r">>
          /\ topics[steps[r].tid].tags = << <<"r">> >>
          /\ topics[steps[r].tid].cid = masterCid

(***************************************************************************)
(* The loop over the files, request by request (src/umber.js:43-103,       *)
(* src/unnamed/part_000:47-122).  Every remote call is a request that is   *)
(* outstanding from the moment it is sent until the forum has answered it; *)
(* an action runs the code from the resolution of one await to the next    *)
(* request.  What the forum answers (category there or not, topic there or *)
(* not, content changed or not) is any of the possible answers.            *)
(***************************************************************************)
\* apiClient.get / post / put: the request leaves
Send(op) == Append(outstanding, [file |-> fileNo, op |-> op])

\* part_000 resolves below the master category; src/umber.js passes no base,
\* so the directory "." resolves to null
HasCategory == flowRevision = "part_000" \/ flowFiles[fileNo].depth > 0

\* src/lib/nodebb.js:125: GET /api/v3/categories for the next segment
FlowListCategories ==
    /\ stage = "resolve"
    /\ Awaited(outstanding)
    /\ segNo < flowFiles[fileNo].depth
    /\ outstanding' = Send("listCategories")
    /\ stage' = "listed"
    /\ UNCHANGED <<flowRevision, flowFiles, fileNo, segNo, topicFound, repliesSent>>
    /\ UNCHANGED notFlowVars

\* src/lib/nodebb.js:130-131: the segment exists, the walk descends
FlowCategoryFound ==
    /\ stage = "listed"
    /\ Awaited(outstanding)
    /\ segNo' = segNo + 1
    /\ stage' = "resolve"
    /\ UNCHANGED <<flowRevision, flowFiles, fileNo, topicFound, repliesSent, outstanding>>
    /\ UNCHANGED notFlowVars

\* src/lib/nodebb.js:132-135: the segment is missing, POST /api/v3/categories
FlowCreateCategory ==
    /\ stage = "listed"
    /\ Awaited(outstanding)
    /\ outstanding' = Send("createCategory")
    /\ segNo' = segNo + 1
    /\ stage' = "resolve"
    /\ UNCHANGED <<flowRevision, flowFiles, fileNo, topicFound, repliesSent>>
    /\ UNCHANGED notFlowVars

\* src/umber.js:60 and src/lib/nodebb.js:35-42: the lookup; no request for a
\* null category
FlowLookup ==
    /\ stage = "resolve"
    /\ Awaited(outstanding)
    /\ segNo = flowFiles[fileNo].depth
    /\ IF HasCategory
       THEN /\ outstanding' = Send("getCategory")
            /\ stage' = "looked"
       ELSE /\ stage' = "write"
            /\ UNCHANGED outstanding
    /\ topicFound' = FALSE
    /\ UNCHANGED <<flowRevision, flowFiles, fileNo, segNo, repliesSent>>
    /\ UNCHANGED notFlowVars

\* src/lib/nodebb.js:50-57: a topic carries the tag, GET /api/v3/topics/:tid
FlowTopicDetails ==
    /\ stage = "looked"
    /\ Awaited(outstanding)
    /\ outstanding' = Send("getTopic")
    /\ topicFound' = TRUE
    /\ stage' = "write"
    /\ UNCHANGED <<flowRevision, flowFiles, fileNo, segNo, repliesSent>>
    /\ UNCHANGED notFlowVars

\* src/lib/nodebb.js:45-54: no topic carries the tag
FlowTopicMissing ==
    /\ stage = "looked"
    /\ Awaited(outstanding)
    /\ stage' = "write"
    /\ UNCHANGED <<flowRevision, flowFiles, fileNo, segNo, topicFound, repliesSent,
                   outstanding>>
    /\ UNCHANGED notFlowVars

\* src/umber.js:64-77: the existing topic is updated (PUT /api/v3/posts/:pid)
\* or left alone
FlowUpdateOrSkip ==
    /\ stage = "write"
    /\ Awaited(outstanding)
    /\ topicFound
    /\ \E changed \in BOOLEAN :
          outstanding' = IF changed THEN Send("updatePost") ELSE outstanding
    /\ stage' = "next"
    /\ UNCHANGED <<flowRevision, flowFiles, fileNo, segNo, topicFound, repliesSent>>
    /\ UNCHANGED notFlowVars

\* src/umber.js:85-94 and src/unnamed/part_000:86-100: POST /api/v3/topics
FlowCreateTopic ==
    /\ stage = "write"
    /\ Awaited(outstanding)
    /\ ~topicFound
    /\ outstanding' = Send("createTopic")
    /\ repliesSent' = 0
    /\ stage' = IF flowRevision = "part_000" THEN "replies" ELSE "next"
    /\ UNCHANGED <<flowRevision, flowFiles, fileNo, segNo, topicFound>>
    /\ UNCHANGED notFlowVars

\* src/unnamed/part_000:110-114: one more reply (POST /api/v3/topics/:tid)
FlowCreateReply ==
    /\ stage = "replies"
    /\ Awaited(outstanding)
    /\ repliesSent < flowFiles[fileNo].chunks - 1
    /\ outstanding' = Send("createReply")
    /\ repliesSent' = repliesSent + 1
    /\ UNCHANGED <<flowRevision, flowFiles, fileNo, stage, segNo, topicFound>>
    /\ UNCHANGED notFlowVars

\* src/umber.js:100-103: the loop goes on with the next file
FlowNextFile ==
    /\ \/ stage = "next"
       \/ stage = "replies" /\ repliesSent >= flowFiles[fileNo].chunks - 1
    /\ Awaited(outstanding)
    /\ IF fileNo < Len(flowFiles)
       THEN /\ fileNo' = fileNo + 1
            /\ stage' = "resolve"
       ELSE /\ stage' = "done"
            /\ UNCHANGED fileNo
    /\ segNo' = 0
    /\ topicFound' = FALSE
    /\ repliesSent' = 0
    /\ UNCHANGED <<flowRevision, flowFiles, outstanding>>
    /\ UNCHANGED notFlowVars

\* the forum answers one outstanding request
FlowAnswer ==
    /\ \E k \in 1..Len(outstanding) :
          outstanding' = SubSeq(outstanding, 1, k - 1)
                            \o SubSeq(outstanding, k + 1, Len(outstanding))
    /\ UNCHANGED <<flowRevision, flowFiles, fileNo, stage, segNo, topicFound,
                   repliesSent>>
    /\ UNCHANGED notFlowVars

FlowInit ==
    /\ flowRevision \in {"umber.js", "part_000"}
    /\ flowFiles \in UNION {[1..n -> [depth : 0..MaxDepth, chunks : 1..MaxChunks]] :
                              n \in 1..MaxFiles}
    /\ fileNo = 1
    /\ stage = "resolve"
    /\ segNo = 0
    /\ topicFound = FALSE
    /\ repliesSent = 0
    /\ outstanding = <<>>
    /\ ChunkIdle
    /\ CodecIdle
    /\ ImportIdle
    /\ TagIdle
    /\ ResolverIdle
    /\ CreateIdle
    /\ DocIdle
    /\ HashIdle
    /\ UpdateIdle
    /\ StartupIdle
    /\ PullIdle

FlowNext ==
    \/ FlowListCategories
    \/ FlowCategoryFound
    \/ FlowCreateCategory
    \/ FlowLookup
    \/ FlowTopicDetails
    \/ FlowTopicMissing
    \/ FlowUpdateOrSkip
    \/ FlowCreateTopic
    \/ FlowCreateReply
    \/ FlowNextFile
    \/ FlowAnswer

SpecFlow == FlowInit /\ [][FlowNext]_vars

\* C32: at most one remote request is outstanding at any time, a request is
\* sent only when none is outstanding, and every outstanding request belongs
\* to the file the loop is at: no call for a later file is issued before
\* every call for the files before it has been answered.
SequentialFlow ==
    /\ [](/\ Len(outstanding) <= 1
          /\ \A k \in 1..Len(outstanding) : outstanding[k].file = fileNo)
    /\ [][Len(outstanding') > Len(outstanding) => outstanding = <<>>]_vars

\* the loop is at its second file, a chunked one below two directories,
\* with a reply outstanding
SequentialFlowWitness ==
    /\ fileNo = 2
    /\ flowFiles[2].depth = 2
    /\ stage = "replies"
    /\ repliesSent >= 1
    /\ outstanding = << [file |-> 2, op |-> "createReply"] >>

(***************************************************************************)
(* The master category, checked under SpecMaster.                          *)
(***************************************************************************)
\* cid is the category anc or lies below it
AtOrBelow(cid, anc) ==
    \E k \in 1..Len(AncestorChain(cid)) : AncestorChain(cid)[k] = anc

\* the categories at the root that carry the master category's name
MasterCategories ==
    {k \in 1..Len(forumCategories) :
        /\ forumCategories[k].parentCid = Null
        /\ toLowerCase(forumCategories[k].name) = toLowerCase(MasterCategoryName)}

\* C33: with a master category configured, no file is processed and no other
\* request is issued before the master category is found or created; it is
\* created at most once and is then the one category of its name at the
\* root; every category resolved for a file's directory, and every category
\* created for one, lies below it; and the root directory resolves to the
\* master category itself.
MasterCategoryNesting ==
    /\ rpc = "master" => resolved = <<>> /\ remoteLog = <<>>
    /\ rpc # "master" =>
          /\ remoteLog[1] = ListCategoriesCall(Null, MasterCategoryName)
          /\ Cardinality(CallsFor("createCategory", Null, MasterCategoryName)) <= 1
          /\ Cardinality(MasterCategories) = 1
          /\ \A k \in MasterCategories : forumCategories[k].cid = baseCategory
          /\ \A i \in 1..Len(resolved) :
                /\ AtOrBelow(resolved[i], baseCategory)
                /\ requests[i] = <<".">> => resolved[i] = baseCategory
          /\ \A k \in 1..Len(remoteLog) :
                remoteLog[k].op = "createCategory" =>
                    \/ k = 2 /\ remoteLog[k] = CreateCategoryCall(MasterCategoryName, Null)
                    \/ AtOrBelow(remoteLog[k].parentCid, baseCategory)

\* on a forum with a category a beside the master category, a root file and
\* a file of directory a were processed: the first lies in the master
\* category, the second in a new category a below it
MasterCategoryNestingWitness ==
    /\ rpc = "done"
    /\ \E i, j \in 1..Len(requests) :
          /\ requests[i] = <<".">>
          /\ resolved[i] = baseCategory
          /\ requests[j] = <<"a">>
          /\ CategoryOf(resolved[j]).parentCid = baseCategory
          /\ CategoryOf(resolved[j]).name = <<"a">>
    /\ \E k \in 1..Len(forumCategories) :
          forumCategories[k].parentCid = Null /\ forumCategories[k].name = <<"a">>

(***************************************************************************)
(* The size of the post bodies, checked under SpecPost.                    *)
(***************************************************************************)
\* the length of "```" lang "\n" body "\n```" (src/unnamed/part_000:84)
FencedLength(fenced) == 3 + Len(fenced.lang) + 1 + Len(fenced.body) + 1 + 3

\* the length of a post body as it is sent; a reply starts with
\* "*(Continued from post " i ")*" and an empty line (src/unnamed/part_000:111)
BodyLength(body) ==
    IF "continuedFrom" \in DOMAIN body
    THEN 22 + Len(CidString(body.continuedFrom)) + 2 + 2 + FencedLength(body.fenced)
    ELSE FencedLength(body)

\* C34: every post body the create branch sends (the main post and each
\* reply), counted with its code fence and its continuation marker, is no
\* longer than the ceiling.
PostBodiesBounded ==
    /\ \A k \in 1..Len(inFlight) : BodyLength(inFlight[k].content) <= maxPostLength
    /\ \A k \in 1..Len(forumPosts) : BodyLength(forumPosts[k]) <= maxPostLength

(***************************************************************************)
(* Files of one directory, checked under SpecSibling.                      *)
(***************************************************************************)
\* C35: the steps of one pass for two different files never end at the same
\* topic: each file has a topic of its own, and no file's update is written
\* to the main post of another file's topic.
SiblingsKeepApart ==
    \A i, j \in 1..Len(steps) :
        steps[i].filePath # steps[j].filePath =>
            /\ steps[i].tid # steps[j].tid
            /\ \A k \in 1..Len(steps[j].writes) :
                  steps[j].writes[k].op = "updatePost" =>
                      steps[j].writes[k].pid # topics[steps[i].tid].mainPid

(***************************************************************************)
(* Empty chunks, checked under SpecChunk.                                  *)
(***************************************************************************)
\* C36: when chunkText has returned for a text longer than maxLength, none
\* of the chunks is the empty string.
NoEmptyChunk ==
    cpc = "done" /\ Len(text) > maxLength =>
        \A i \in 1..Len(chunks) : chunks[i] # <<>>

(***************************************************************************)
(* The memoizing resolver against the one without cache, checked under     *)
(* SpecResolver.                                                           *)
(***************************************************************************)
RECURSIVE ResolveAllUncached(_, _, _)
\* the calls of src/lib/nodebb.js:114-143 for the paths, one after the other,
\* from the root: the forum's categories in the end and the cids returned
ResolveAllUncached(cats, paths, cids) ==
    IF paths = <<>> THEN [cats |-> cats, cids |-> cids]
    ELSE LET categoryPath == Head(paths)
             w == IF categoryPath = <<".">> \/ categoryPath = <<>>
                  THEN [cats |-> cats, cid |-> Null]
                  ELSE WalkLogged(cats, Split(categoryPath, "/"), Null, <<>>)
         IN  ResolveAllUncached(w.cats, Tail(paths), Append(cids, w.cid))

\* the forum's categories before the process started: categories are only
\* ever added, one per createCategory
CategoriesAtStart ==
    SubSeq(forumCategories, 1,
           Len(forumCategories)
             - Cardinality({k \in 1..Len(remoteLog) : remoteLog[k].op = "createCategory"}))

\* C37: when the memoizing resolver has resolved a sequence of paths, the
\* cids it returned and the categories of the forum are those the resolver
\* without cache gives for the same paths on the same forum.
CacheCoherent ==
    rpc = "done" /\ resolver = "part_007" =>
        LET reference == ResolveAllUncached(CategoriesAtStart, requests, <<>>)
        IN  /\ resolved = reference.cids
            /\ forumCategories = reference.cats

(***************************************************************************)
(* pullWorkflow (src/lib/pull-command.js:6-51).  The hub's answer to the   *)
(* request is an input: the request is rejected with or without an HTTP    *)
(* response, or resolved with a body whose parts are there or not.  The    *)
(* working directory is taken to accept the write.                         *)
(***************************************************************************)
\* line 7: !config.hub || !config.hub.url || !config.hub.api_key
HubConfigMissing(cfg) ==
    cfg.hub = "absent" \/ ~Truthy(cfg.url) \/ ~Truthy(cfg.api_key)

\* A test of the payload that does not look at workflowData.
PayloadInvalidNoData(answer) == ~Truthy(answer.response)

\* line 27: !workflowPayload || !workflowPayload.workflowData
PayloadInvalid(answer) ==
    ~Truthy(answer.response) \/ ~Truthy(answer.workflowData)

\* line 33: `workflow-${pid}.json`
OutputFileName(pid) == <<"workflow-", pid, ".json">>

\* lines 7-19: the configuration test, then the request
PullStart ==
    /\ ppc = "start"
    /\ IF HubConfigMissing(hubConfig)
       THEN /\ ppc' = "exited"
            /\ UNCHANGED hubRequests
       ELSE /\ hubRequests' = Append(hubRequests,
                                     [op |-> "getWorkflow", pid |-> workflowPid])
            /\ ppc' = "waiting"
    /\ UNCHANGED <<hubConfig, workflowPid, hubAnswer, workflowFiles>>
    /\ UNCHANGED notPullVars

\* lines 25-41: the request resolved; response.data.response throws when the
\* answer has no body, and the catch of line 43 takes it
PullResolved ==
    /\ ppc = "waiting"
    /\ hubAnswer.outcome = "resolved"
    /\ workflowFiles' =
          IF hubAnswer.data = "absent" \/ PayloadInvalid(hubAnswer)
          THEN workflowFiles
          ELSE workflowFiles \cup
                  {[name |-> OutputFileName(workflowPid),
                    content |-> hubAnswer.workflowData]}
    /\ ppc' = "done"
    /\ UNCHANGED <<hubConfig, workflowPid, hubAnswer, hubRequests>>
    /\ UNCHANGED notPullVars

\* lines 43-50: the request rejected, with or without a response
PullRejected ==
    /\ ppc = "waiting"
    /\ hubAnswer.outcome # "resolved"
    /\ ppc' = "done"
    /\ UNCHANGED <<hubConfig, workflowPid, hubAnswer, hubRequests, workflowFiles>>
    /\ UNCHANGED notPullVars

\* the pids of the model
WorkflowPids == {779, 780}

PullInit ==
    /\ hubConfig \in [hub : {"absent", "object"}, url : {"absent", "", "u"},
                      api_key : {"absent", "", "k"}]
    /\ hubConfig.hub = "absent" => hubConfig.url = "absent" /\ hubConfig.api_key = "absent"
    /\ workflowPid \in WorkflowPids
    /\ hubAnswer \in [outcome : {"resolved", "status", "network"},
                      data : {"absent", "object"},
                      response : {"absent", "null", "object"},
                      workflowData : {"absent", "null", "", "graph"}]
    /\ hubAnswer.data = "absent" => hubAnswer.response = "absent"
    /\ hubAnswer.response # "object" => hubAnswer.workflowData = "absent"
    /\ hubRequests = <<>>
    /\ workflowFiles = {}
    /\ ppc = "start"
    /\ ChunkIdle
    /\ CodecIdle
    /\ ImportIdle
    /\ TagIdle
    /\ ResolverIdle
    /\ CreateIdle
    /\ DocIdle
    /\ HashIdle
    /\ UpdateIdle
    /\ StartupIdle
    /\ FlowIdle

PullNext ==
    \/ PullStart
    \/ PullResolved
    \/ PullRejected

SpecPull == PullInit /\ [][PullNext]_vars

\* C38: pullWorkflow has written a file if and only if the hub request was
\* sent and resolved and its payload holds workflow data; the file is
\* workflow-<pid>.json with that data; an invalid payload or a rejected
\* request leaves no file; and with hub.url or hub.api_key missing no
\* request is sent and nothing is written.
PullWritesOnValidPayload ==
    LET configured == /\ hubConfig.hub = "object"
                      /\ hubConfig.url \notin {"absent", ""}
                      /\ hubConfig.api_key \notin {"absent", ""}
        valid == /\ hubAnswer.outcome = "resolved"
                 /\ hubAnswer.response = "object"
                 /\ hubAnswer.workflowData = "graph"
    IN  /\ ~configured => hubRequests = <<>> /\ workflowFiles = {} /\ ppc # "waiting"
        /\ ppc \in {"start", "waiting"} => workflowFiles = {}
        /\ ppc = "done" => (workflowFiles # {} <=> valid)
        /\ workflowFiles \subseteq
              {[name |-> <<"workflow-", workflowPid, ".json">>, content |-> "graph"]}
        /\ Len(hubRequests) <= 1

\* the request for pid 779 was sent and resolved with workflow data, and
\* workflow-779.json holds it
PullWritesOnValidPayloadWitness ==
    /\ ppc = "done"
    /\ workflowFiles = {[name |-> <<"workflow-", 779, ".json">>, content |-> "graph"]}
    /\ hubRequests = <<[op |-> "getWorkflow", pid |-> 779]>>

=============================================================================
